---- MODULE Spec2Model ----
(***************************************************************************)
(* Practice-session engine of backend/app/services/practice_service.py:    *)
(* the question catalog, the adaptive difficulty selector, the session     *)
(* state machine, the concept mastery tracker and the session aggregator.  *)
(*                                                                         *)
(* The database tables are the state: questions, practice_sessions,        *)
(* practice_session_questions and concept_scores. A nullable column is a   *)
(* sequence of length at most one: <<>> is NULL, <<v>> holds v.            *)
(***************************************************************************)
EXTENDS Integers, Sequences, FiniteSets, TLC

VARIABLES
    questions,   \* table questions: the catalog, a row's id is its index
    sessions,    \* table practice_sessions, a row's id is its index
    psq,         \* table practice_session_questions, grouped by session id
    scores,      \* table concept_scores, in insertion order
    now,         \* the wall clock, in seconds
    ret,         \* the last service call and what it returned
    procs        \* the service calls in flight, one record per request

vars == <<questions, sessions, psq, scores, now, ret, procs>>

----------------------------------------------------------------------------
(* Bounds of the model *)

MaxSessions == 1      \* sessions ever started
MaxCount == 5         \* largest question_count requested
MaxText == 2          \* distinct question texts the generator can produce
MaxGen == 1           \* longest generator response beyond which none is drawn
MaxTicks == 1         \* clock ticks
MaxTaken == 1         \* largest time_taken_seconds submitted
MaxProcs == 2         \* submit requests in flight together
TickSeconds == 90     \* seconds per clock tick
MaxGenLong == 4       \* longest generator response where start is studied alone
MaxSeeded == 2        \* concept scores seeded by onboarding
MaxAttempts == 4      \* answers recorded where the tracker is studied alone
MaxCatalog == 3       \* catalog rows where the lookup is studied alone
MaxEarlier == 1       \* answers recorded before the requests that run together
MaxUsed == 2          \* times a catalog question was used before a lookup

(* Program constants *)

MinCount == 5         \* StartSessionRequest.question_count, ge=5
MinTimeLimit == 60    \* StartSessionRequest.time_limit_seconds, ge=60
DefaultClassLevel == 10
MaxQuestionCount == 30 \* StartSessionRequest.question_count, le=30

----------------------------------------------------------------------------
(* Values *)

None == <<>>
Some(v) == <<v>>

Users == {"u1", "u2"}
Subjects == {"Mathematics"}
Topics == {"Algebra"}
DifficultyLevel == {"easy", "medium", "hard"}
Answers == {"A", "a"}

IN_PROGRESS == "in_progress"
COMPLETED == "completed"
ABANDONED == "abandoned"
SessionStatus == {IN_PROGRESS, COMPLETED, ABANDONED}

Min(a, b) == IF a < b THEN a ELSE b
Max(a, b) == IF a > b THEN a ELSE b

RECURSIVE Gcd(_, _)
Gcd(a, b) == IF b = 0 THEN a ELSE Gcd(b, a % b)

\* a / b as Python computes it, kept exact: a fraction in lowest terms
Frac(a, b) ==
    LET g == Gcd(a, b) IN
    IF a = 0 THEN [n |-> 0, d |-> 1] ELSE [n |-> a \div g, d |-> b \div g]

RECURSIVE SeqSum(_)
SeqSum(s) == IF s = <<>> THEN 0 ELSE Head(s) + SeqSum(Tail(s))

Repeat(v, n) == [i \in 1..n |-> v]

\* round(a / b) to the nearest integer, ties to even, as Python's round
RoundHalfEven(a, b) ==
    LET q == a \div b
        r == a % b
    IN  IF 2 * r < b THEN q
        ELSE IF 2 * r > b THEN q + 1
        ELSE IF q % 2 = 0 THEN q ELSE q + 1

\* round(f, 1) of a fraction f, in tenths
RoundTenths(f) == RoundHalfEven(10 * f.n, f.d)

----------------------------------------------------------------------------
(* The catalog as the service finds it: empty, or seeded with an imported  *)
(* easy question, a question generated earlier (its external_id is the     *)
(* fingerprint of text 1) and a question of another class level.           *)

ExternalId(draft) == <<"gen", draft.question>>

SeedCatalog ==
    << [id |-> 1, external_id |-> None, subject |-> "Mathematics",
        topic |-> "Algebra", subtopic |-> Some("Linear"), difficulty |-> "easy",
        class_level |-> 10, correct_answer |-> "A",
        times_used |-> 1, times_correct |-> 0],
       [id |-> 2, external_id |-> Some(<<"gen", 1>>), subject |-> "Mathematics",
        topic |-> "Algebra", subtopic |-> None, difficulty |-> "medium",
        class_level |-> 10, correct_answer |-> "A",
        times_used |-> 0, times_correct |-> 0],
       [id |-> 3, external_id |-> None, subject |-> "Mathematics",
        topic |-> "Algebra", subtopic |-> None, difficulty |-> "easy",
        class_level |-> 12, correct_answer |-> "A",
        times_used |-> 0, times_correct |-> 0] >>

\* what the generator can answer to a request for cnt questions: nothing
\* (also its failure), or n drafts whose texts repeat (step 0) or follow
\* one another (step 1); n may exceed cnt
Draft(text) == [question |-> text, correct_answer |-> "A"]

GenResponses(cnt, longest) ==
    { [i \in 1..n |-> Draft(((first + (i - 1) * step) % MaxText) + 1)] :
        n \in 0..Min(cnt + 1, longest), first \in 0..(MaxText - 1), step \in 0..1 }

\* gemini_client.generate_questions as the core sees it: for a request of
\* cnt questions, the responses it may give, none longer than `longest`
Gemini(longest) == [cnt \in 1..(MaxCount + 1) |-> GenResponses(cnt, longest)]

----------------------------------------------------------------------------
(* Concept scores *)

\* the rows of concept_scores of one key, in table order
\* (_update_concept_score: eq user_id, subject, topic; eq subtopic when the
\* subtopic is a non-empty string, is-null otherwise)
ConceptScoreQuery(sc, user, subject, topic, subtopic) ==
    SelectSeq(sc, LAMBDA r :
        /\ r.user_id = user
        /\ r.subject = subject
        /\ r.topic = topic
        /\ IF subtopic # None /\ subtopic[1] # ""
           THEN r.subtopic = subtopic
           ELSE r.subtopic = None)

\* new_score names neither mastery_score nor recommended_difficulty: the row
\* gets the defaults of the table, a number and a difficulty for its readers
\* (get_concept_mastery, _get_adaptive_difficulty_distribution)
DefaultMasteryScore == [n |-> 0, d |-> 1]
DefaultRecommendedDifficulty == "easy"

\* NewConceptScore with "best_streak": 0
NewConceptScore_NoBest(id, user, subject, topic, subtopic, difficulty, is_correct, time_taken, t) ==
    [id |-> id, user_id |-> user, subject |-> subject, topic |-> topic,
     subtopic |-> subtopic,
     total_attempts |-> 1,
     correct_attempts |-> IF is_correct THEN 1 ELSE 0,
     current_streak |-> IF is_correct THEN 1 ELSE 0,
     best_streak |-> 0,
     mastery_score |-> DefaultMasteryScore,
     recommended_difficulty |-> DefaultRecommendedDifficulty,
     avg_time_seconds |-> Frac(time_taken, 1),
     last_practiced_at |-> t,
     attempts |-> [d \in DifficultyLevel |-> IF difficulty = d THEN 1 ELSE 0],
     correct |-> [d \in DifficultyLevel |->
                    IF difficulty = d /\ is_correct THEN 1 ELSE 0]]

\* the row inserted for the first attempt of a key
NewConceptScore(id, user, subject, topic, subtopic, difficulty, is_correct, time_taken, t) ==
    [id |-> id, user_id |-> user, subject |-> subject, topic |-> topic,
     subtopic |-> subtopic,
     total_attempts |-> 1,
     correct_attempts |-> IF is_correct THEN 1 ELSE 0,
     current_streak |-> IF is_correct THEN 1 ELSE 0,
     best_streak |-> IF is_correct THEN 1 ELSE 0,
     mastery_score |-> DefaultMasteryScore,
     recommended_difficulty |-> DefaultRecommendedDifficulty,
     avg_time_seconds |-> Frac(time_taken, 1),
     last_practiced_at |-> t,
     attempts |-> [d \in DifficultyLevel |-> IF difficulty = d THEN 1 ELSE 0],
     correct |-> [d \in DifficultyLevel |->
                    IF difficulty = d /\ is_correct THEN 1 ELSE 0]]

\* UpdatedConceptScore without the else branch that resets current_streak
UpdatedConceptScore_KeepStreak(cur, score, difficulty, is_correct, time_taken, t) ==
    LET streak == score.current_streak + 1
        bucket == IF difficulty \in {"easy", "medium"} THEN difficulty ELSE "hard"
    IN  [cur EXCEPT
            !.total_attempts = score.total_attempts + 1,
            !.last_practiced_at = t,
            !.correct_attempts = IF is_correct THEN score.correct_attempts + 1 ELSE @,
            !.current_streak = IF is_correct THEN streak ELSE @,
            !.best_streak = IF is_correct /\ streak > score.best_streak
                            THEN streak ELSE @,
            !.attempts[bucket] = score.attempts[bucket] + 1,
            !.correct[bucket] = IF is_correct THEN score.correct[bucket] + 1 ELSE @,
            !.avg_time_seconds =
                IF score.avg_time_seconds.n # 0
                THEN Frac(score.avg_time_seconds.n * score.total_attempts
                            + time_taken * score.avg_time_seconds.d,
                          score.avg_time_seconds.d * (score.total_attempts + 1))
                ELSE Frac(time_taken, 1)]

\* UpdatedConceptScore setting best_streak to the streak it just wrote
UpdatedConceptScore_BestIsCurrent(cur, score, difficulty, is_correct, time_taken, t) ==
    LET streak == score.current_streak + 1
        bucket == IF difficulty \in {"easy", "medium"} THEN difficulty ELSE "hard"
    IN  [cur EXCEPT
            !.total_attempts = score.total_attempts + 1,
            !.last_practiced_at = t,
            !.correct_attempts = IF is_correct THEN score.correct_attempts + 1 ELSE @,
            !.current_streak = IF is_correct THEN streak ELSE 0,
            !.best_streak = IF is_correct THEN streak ELSE 0,
            !.attempts[bucket] = score.attempts[bucket] + 1,
            !.correct[bucket] = IF is_correct THEN score.correct[bucket] + 1 ELSE @,
            !.avg_time_seconds =
                IF score.avg_time_seconds.n # 0
                THEN Frac(score.avg_time_seconds.n * score.total_attempts
                            + time_taken * score.avg_time_seconds.d,
                          score.avg_time_seconds.d * (score.total_attempts + 1))
                ELSE Frac(time_taken, 1)]

\* UpdatedConceptScore counting a medium answer in the hard bucket
UpdatedConceptScore_MediumAsHard(cur, score, difficulty, is_correct, time_taken, t) ==
    LET streak == score.current_streak + 1
        bucket == IF difficulty = "easy" THEN difficulty ELSE "hard"
    IN  [cur EXCEPT
            !.total_attempts = score.total_attempts + 1,
            !.last_practiced_at = t,
            !.correct_attempts = IF is_correct THEN score.correct_attempts + 1 ELSE @,
            !.current_streak = IF is_correct THEN streak ELSE 0,
            !.best_streak = IF is_correct /\ streak > score.best_streak
                            THEN streak ELSE @,
            !.attempts[bucket] = score.attempts[bucket] + 1,
            !.correct[bucket] = IF is_correct THEN score.correct[bucket] + 1 ELSE @,
            !.avg_time_seconds =
                IF score.avg_time_seconds.n # 0
                THEN Frac(score.avg_time_seconds.n * score.total_attempts
                            + time_taken * score.avg_time_seconds.d,
                          score.avg_time_seconds.d * (score.total_attempts + 1))
                ELSE Frac(time_taken, 1)]

\* UpdatedConceptScore with current_streak + 1 after a wrong answer too
UpdatedConceptScore_StreakOnWrong(cur, score, difficulty, is_correct, time_taken, t) ==
    LET streak == score.current_streak + 1
        bucket == IF difficulty \in {"easy", "medium"} THEN difficulty ELSE "hard"
    IN  [cur EXCEPT
            !.total_attempts = score.total_attempts + 1,
            !.last_practiced_at = t,
            !.correct_attempts = IF is_correct THEN score.correct_attempts + 1 ELSE @,
            !.current_streak = streak,
            !.best_streak = IF is_correct /\ streak > score.best_streak
                            THEN streak ELSE @,
            !.attempts[bucket] = score.attempts[bucket] + 1,
            !.correct[bucket] = IF is_correct THEN score.correct[bucket] + 1 ELSE @,
            !.avg_time_seconds =
                IF score.avg_time_seconds.n # 0
                THEN Frac(score.avg_time_seconds.n * score.total_attempts
                            + time_taken * score.avg_time_seconds.d,
                          score.avg_time_seconds.d * (score.total_attempts + 1))
                ELSE Frac(time_taken, 1)]

\* the row after the update of _update_concept_score: the columns of
\* `updates`, computed from the row read earlier (score), set on the row as
\* the table holds it now (cur); the other columns keep what the table holds
UpdatedConceptScore(cur, score, difficulty, is_correct, time_taken, t) ==
    LET streak == score.current_streak + 1
        bucket == IF difficulty \in {"easy", "medium"} THEN difficulty ELSE "hard"
    IN  [cur EXCEPT
            !.total_attempts = score.total_attempts + 1,
            !.last_practiced_at = t,
            !.correct_attempts = IF is_correct THEN score.correct_attempts + 1 ELSE @,
            !.current_streak = IF is_correct THEN streak ELSE 0,
            !.best_streak = IF is_correct /\ streak > score.best_streak
                            THEN streak ELSE @,
            !.attempts[bucket] = score.attempts[bucket] + 1,
            !.correct[bucket] = IF is_correct THEN score.correct[bucket] + 1 ELSE @,
            !.avg_time_seconds =
                IF score.avg_time_seconds.n # 0
                THEN Frac(score.avg_time_seconds.n * score.total_attempts
                            + time_taken * score.avg_time_seconds.d,
                          score.avg_time_seconds.d * (score.total_attempts + 1))
                ELSE Frac(time_taken, 1)]

\* the write of _update_concept_score, given the rows its query returned:
\* an update of the row with the id read, or an insert
ConceptScoreWrite(sc, found, user, subject, topic, subtopic, difficulty, is_correct, time_taken, t) ==
    IF found # <<>>
    THEN [i \in DOMAIN sc |->
            IF sc[i].id = found[1].id
            THEN UpdatedConceptScore(sc[i], found[1], difficulty, is_correct,
                                     time_taken, t)
            ELSE sc[i]]
    ELSE Append(sc, NewConceptScore(Len(sc) + 1, user, subject, topic, subtopic,
                                    difficulty, is_correct, time_taken, t))

UpdateConceptScore(sc, user, subject, topic, subtopic, difficulty, is_correct, time_taken, t) ==
    ConceptScoreWrite(sc, ConceptScoreQuery(sc, user, subject, topic, subtopic),
                      user, subject, topic, subtopic, difficulty, is_correct,
                      time_taken, t)

\* accuracy = correct / total * 100, 0 when nothing was attempted
MasteryScore(score) ==
    IF score.total_attempts > 0
    THEN Frac(100 * score.correct_attempts, score.total_attempts)
    ELSE Frac(0, 1)

\* _calculate_recommended_difficulty comparing with <= in place of <
CalculateRecommendedDifficulty_InclusiveLower(accuracy) ==
    IF accuracy.n <= 40 * accuracy.d THEN "easy"
    ELSE IF accuracy.n <= 70 * accuracy.d THEN "medium"
    ELSE "hard"

\* _calculate_recommended_difficulty
CalculateRecommendedDifficulty(accuracy) ==
    IF accuracy.n < 40 * accuracy.d THEN "easy"
    ELSE IF accuracy.n < 70 * accuracy.d THEN "medium"
    ELSE "hard"

\* round(x, 2) of a fraction x, as a fraction
RoundHundredths(x) == Frac(RoundHalfEven(100 * x.n, x.d), 100)

\* the concept_score onboarding seeds for one topic of a user, from the
\* number of onboarding questions of the topic and of correct answers
SeededConceptScore(id, user, subject, topic, total, correct, t) ==
    LET accuracy == MasteryScore([total_attempts |-> total,
                                  correct_attempts |-> correct])
    IN  [id |-> id, user_id |-> user, subject |-> subject, topic |-> topic,
         subtopic |-> Some(""),
         total_attempts |-> total,
         correct_attempts |-> correct,
         current_streak |-> correct,
         best_streak |-> correct,
         mastery_score |-> RoundHundredths(accuracy),
         recommended_difficulty |-> CalculateRecommendedDifficulty(accuracy),
         avg_time_seconds |-> Frac(0, 1),
         last_practiced_at |-> t,
         attempts |-> [d \in DifficultyLevel |->
                         IF d = "medium" THEN total ELSE 0],
         correct |-> [d \in DifficultyLevel |->
                        IF d = "medium" THEN correct ELSE 0]]

\* upsert(concept_score, on_conflict="user_id,subject,topic,subtopic,
\* concept_tag"): the row of that key is replaced, or the row is added
UpsertConceptScore(sc, user, subject, topic, total, correct, t) ==
    LET hit == {i \in DOMAIN sc :
                    /\ sc[i].user_id = user /\ sc[i].subject = subject
                    /\ sc[i].topic = topic /\ sc[i].subtopic = Some("")}
    IN  IF hit # {}
        THEN [i \in DOMAIN sc |->
                IF i \in hit
                THEN SeededConceptScore(sc[i].id, user, subject, topic, total,
                                        correct, t)
                ELSE sc[i]]
        ELSE Append(sc, SeededConceptScore(Len(sc) + 1, user, subject, topic,
                                           total, correct, t))

----------------------------------------------------------------------------
(* Adaptive difficulty selector *)

FracAdd(f, g) == Frac(f.n * g.d + g.n * f.d, f.d * g.d)

RECURSIVE FracSum(_)
FracSum(s) == IF s = <<>> THEN Frac(0, 1) ELSE FracAdd(Head(s), FracSum(Tail(s)))

\* FracLess comparing with <= in place of <
FracLess_OrEqual(f, k) == f.n <= k * f.d

\* f < k for a fraction f and an integer k
FracLess(f, k) == f.n < k * f.d

\* Distribution without its + ["hard"] * hard
Distribution_NoHard(easy, medium, hard) ==
    Repeat("easy", easy) \o Repeat("medium", medium)

Distribution(easy, medium, hard) ==
    Repeat("easy", easy) \o Repeat("medium", medium) \o Repeat("hard", hard)

GetAdaptiveDifficultyDistribution(sc, user, subject, topic, count) ==
    LET data == SelectSeq(sc, LAMBDA r :
                    /\ r.user_id = user
                    /\ r.subject = subject
                    /\ (topic # None => r.topic = topic[1]))
        total == FracSum([i \in DOMAIN data |-> data[i].mastery_score])
        avg_mastery == Frac(total.n, total.d * Len(data))
    IN  IF data = <<>>
        THEN Distribution(count \div 2, count - count \div 2, 0)
        ELSE IF FracLess(avg_mastery, 40)
        THEN LET easy == (count * 6) \div 10
             IN  Distribution(easy, count - easy, 0)
        ELSE IF FracLess(avg_mastery, 70)
        THEN LET easy == (count * 3) \div 10
                 hard == (count * 2) \div 10
             IN  Distribution(easy, count - easy - hard, hard)
        ELSE LET easy == (count * 2) \div 10
                 hard == (count * 4) \div 10
             IN  Distribution(easy, count - easy - hard, hard)

----------------------------------------------------------------------------
(* Question catalog and cache *)

Ids(qs) == {qs[i].id : i \in DOMAIN qs}

\* GetCachedQuestion without its not_.in_("id", exclude_ids)
GetCachedQuestion_NoExclusion(cat, class_level, subject, topic, difficulty, exclude_ids) ==
    LET match == {i \in DOMAIN cat :
                    /\ cat[i].class_level = class_level
                    /\ cat[i].subject = subject
                    /\ cat[i].difficulty = difficulty
                    /\ (topic # None => cat[i].topic = topic[1])}
    IN  {cat[i] : i \in {j \in match :
                    \A k \in match : cat[j].times_used <= cat[k].times_used}}

\* GetCachedQuestion without order("times_used"): any matching row
GetCachedQuestion_Unordered(cat, class_level, subject, topic, difficulty, exclude_ids) ==
    LET match == {i \in DOMAIN cat :
                    /\ cat[i].class_level = class_level
                    /\ cat[i].subject = subject
                    /\ cat[i].difficulty = difficulty
                    /\ (topic # None => cat[i].topic = topic[1])
                    /\ cat[i].id \notin exclude_ids}
    IN  {cat[i] : i \in match}

\* the rows the lookup may return: the query orders by times_used and takes
\* one row, so any matching row of least times_used; {} when none matches
GetCachedQuestion(cat, class_level, subject, topic, difficulty, exclude_ids) ==
    LET match == {i \in DOMAIN cat :
                    /\ cat[i].class_level = class_level
                    /\ cat[i].subject = subject
                    /\ cat[i].difficulty = difficulty
                    /\ (topic # None => cat[i].topic = topic[1])
                    /\ cat[i].id \notin exclude_ids}
    IN  {cat[i] : i \in {j \in match :
                    \A k \in match : cat[j].times_used <= cat[k].times_used}}

\* the loop over the difficulties that tries the cache for each slot:
\* every list of questions it can end with
RECURSIVE CachedLoop(_, _, _, _, _, _)
CachedLoop(cat, class_level, subject, topic, difficulties, qs) ==
    IF difficulties = <<>> THEN {qs}
    ELSE LET cached == GetCachedQuestion(cat, class_level, subject, topic,
                                         Head(difficulties), Ids(qs))
         IN  IF cached = {}
             THEN CachedLoop(cat, class_level, subject, topic,
                             Tail(difficulties), qs)
             ELSE UNION { CachedLoop(cat, class_level, subject, topic,
                                     Tail(difficulties), Append(qs, c)) :
                          c \in cached }

\* diff_counts: the difficulties left, grouped, in order of first appearance
RECURSIVE DiffCounts(_)
DiffCounts(difficulties) ==
    IF difficulties = <<>> THEN <<>>
    ELSE LET d == Head(difficulties)
             rest == SelectSeq(Tail(difficulties), LAMBDA x : x # d)
         IN  <<[diff |-> d, cnt |-> Len(difficulties) - Len(rest)]>>
             \o DiffCounts(rest)

\* _generate_and_cache_questions on the drafts the generator returned: the
\* catalog afterwards and the rows collected
RECURSIVE GenerateAndCacheQuestions(_, _, _, _, _, _, _)
GenerateAndCacheQuestions(cat, class_level, subject, topic, difficulty, generated, cached_questions) ==
    IF generated = <<>> THEN [cat |-> cat, rows |-> cached_questions]
    ELSE LET q == Head(generated)
             external_id == ExternalId(q)
             existing == SelectSeq(cat, LAMBDA r : r.external_id = Some(external_id))
             question_data ==
                [id |-> Len(cat) + 1, external_id |-> Some(external_id),
                 subject |-> subject, topic |-> topic, subtopic |-> None,
                 difficulty |-> difficulty, class_level |-> class_level,
                 correct_answer |-> q.correct_answer,
                 times_used |-> 0, times_correct |-> 0]
         IN  IF existing # <<>>
             THEN GenerateAndCacheQuestions(cat, class_level, subject, topic,
                     difficulty, Tail(generated),
                     Append(cached_questions, existing[1]))
             ELSE GenerateAndCacheQuestions(Append(cat, question_data),
                     class_level, subject, topic, difficulty, Tail(generated),
                     Append(cached_questions, question_data))

\* the loop over diff_counts, the generator answering each request with any
\* of its responses: every catalog and list of questions it can end with
RECURSIVE GenerateLoop(_, _, _, _, _, _, _)
GenerateLoop(gemini, cat, class_level, subject, topic, diff_counts, qs) ==
    IF diff_counts = <<>> THEN {[cat |-> cat, rows |-> qs]}
    ELSE UNION {
            LET got == GenerateAndCacheQuestions(cat, class_level, subject,
                          IF topic # None THEN topic[1] ELSE "mixed",
                          Head(diff_counts).diff, generated, <<>>)
            IN  GenerateLoop(gemini, got.cat, class_level, subject, topic,
                             Tail(diff_counts), qs \o got.rows) :
            generated \in gemini[Head(diff_counts).cnt] }

\* SelectQuestionsForSession returning `questions` in place of
\* `questions[:count]`
SelectQuestionsForSession_NoTruncation(gemini, cat, sc, user, class_level, subject, topic, difficulty, count) ==
    LET difficulties ==
            IF difficulty # None THEN Repeat(difficulty[1], count)
            ELSE GetAdaptiveDifficultyDistribution(sc, user, subject, topic, count)
    IN  UNION {
            IF count - Len(qs) > 0
            THEN GenerateLoop(gemini, cat, class_level, subject, topic,
                    DiffCounts(SubSeq(difficulties, Len(qs) + 1,
                                      Len(difficulties))), qs)
            ELSE {[cat |-> cat, rows |-> qs]} :
            qs \in CachedLoop(cat, class_level, subject, topic, difficulties, <<>>) }

\* _select_questions_for_session: every outcome [cat, rows]
SelectQuestionsForSession(gemini, cat, sc, user, class_level, subject, topic, difficulty, count) ==
    LET difficulties ==
            IF difficulty # None THEN Repeat(difficulty[1], count)
            ELSE GetAdaptiveDifficultyDistribution(sc, user, subject, topic, count)
    IN  UNION {
            LET remaining == count - Len(qs)
                out == IF remaining > 0
                       THEN GenerateLoop(gemini, cat, class_level, subject, topic,
                               DiffCounts(SubSeq(difficulties, Len(qs) + 1,
                                                 Len(difficulties))), qs)
                       ELSE {[cat |-> cat, rows |-> qs]}
            IN  { [cat |-> o.cat,
                   rows |-> SubSeq(o.rows, 1, Min(count, Len(o.rows)))] :
                  o \in out } :
            qs \in CachedLoop(cat, class_level, subject, topic, difficulties, <<>>) }

----------------------------------------------------------------------------
(* Session state machine *)

\* GetSession without .eq("user_id", user_id)
GetSession_AnyUser(sid, user) ==
    IF sid \in DOMAIN sessions THEN Some(sessions[sid]) ELSE None

\* _get_session: the session with this id if it belongs to the user
GetSession(sid, user) ==
    IF sid \in DOMAIN sessions /\ sessions[sid].user_id = user
    THEN Some(sessions[sid]) ELSE None

SessionRow(id, user, class_level, subject, topic, difficulty, count, limit, t) ==
    [id |-> id, user_id |-> user, subject |-> subject, topic |-> topic,
     difficulty |-> difficulty, class_level |-> class_level,
     question_count |-> count, time_limit_seconds |-> limit,
     status |-> IN_PROGRESS, started_at |-> t, ended_at |-> None,
     total_questions |-> None, correct_answers |-> None,
     wrong_answers |-> None, skipped |-> None, total_time_seconds |-> None,
     avg_time_per_question |-> None, score_percentage |-> None]

\* SessionQuestionRow with "question_order": i in place of i + 1
SessionQuestionRow_ZeroBased(sid, i, q) ==
    [id |-> i, session_id |-> sid, question_id |-> q.id,
     question_order |-> i - 1, difficulty |-> q.difficulty,
     user_answer |-> None, is_correct |-> None,
     time_taken_seconds |-> None, answered_at |-> None]

\* one row of session_questions_data
SessionQuestionRow(sid, i, q) ==
    [id |-> i, session_id |-> sid, question_id |-> q.id,
     question_order |-> i, difficulty |-> q.difficulty,
     user_answer |-> None, is_correct |-> None,
     time_taken_seconds |-> None, answered_at |-> None]

TimeLimits == {None, Some(MinTimeLimit)}

\* start_session for a validated request, the generator being `gemini`
StartSession(gemini, user, subject, topic, difficulty, count, limit) ==
    LET session_id == Len(sessions) + 1
        class_level == DefaultClassLevel
    IN  /\ \E sel \in SelectQuestionsForSession(gemini, questions, scores, user,
                          class_level, subject, topic, difficulty, count) :
              /\ questions' = sel.cat
              /\ sessions' = Append(sessions,
                    SessionRow(session_id, user, class_level, subject, topic,
                               difficulty, count, limit, now))
              /\ psq' = Append(psq,
                    [i \in DOMAIN sel.rows |->
                        SessionQuestionRow(session_id, i, sel.rows[i])])
              /\ ret' = [op |-> "start", sid |-> session_id, user |-> user,
                         rv |-> Some([question_count |-> count])]
        /\ UNCHANGED <<scores, now, procs>>

\* SessionOpen without the comparison of the status
SessionOpen_AnyStatus(session) == session # None

\* the check both get_next_question and submit_answer make on the session
SessionOpen(session) == session # None /\ session[1].status = IN_PROGRESS

\* the rows of a session still unanswered (user_answer is null)
Unanswered(rows) == {i \in DOMAIN rows : rows[i].user_answer = None}

Answered(rows) == {i \in DOMAIN rows : rows[i].user_answer # None}

\* PendingQuestion without the is_("user_answer", "null") filter
PendingQuestion_NoNullFilter(rows, cat) ==
    IF rows = <<>> THEN None
    ELSE LET i == CHOOSE i \in DOMAIN rows : \A j \in DOMAIN rows :
                    rows[i].question_order <= rows[j].question_order
         IN  Some([psq |-> rows[i], question |-> cat[rows[i].question_id]])

\* PendingQuestion ordering by question_order descending
PendingQuestion_HighestOrder(rows, cat) ==
    LET un == Unanswered(rows)
    IN  IF un = {} THEN None
        ELSE LET i == CHOOSE i \in un : \A j \in un :
                        rows[i].question_order >= rows[j].question_order
             IN  Some([psq |-> rows[i], question |-> cat[rows[i].question_id]])

\* select *, questions(*) ... is_("user_answer", "null")
\* .order("question_order").limit(1): the row and the question joined to it
PendingQuestion(rows, cat) ==
    LET un == Unanswered(rows)
    IN  IF un = {} THEN None
        ELSE LET i == CHOOSE i \in un : \A j \in un :
                        rows[i].question_order <= rows[j].question_order
             IN  Some([psq |-> rows[i], question |-> cat[rows[i].question_id]])

\* NextQuestionResult without the max(0, ...) around the remaining time
NextQuestionResult_NoClamp(session, rows, cat, t) ==
    LET pending == PendingQuestion(rows, cat)
        row == pending[1].psq
        question == pending[1].question
        elapsed == t - session.started_at
        time_remaining ==
            IF session.time_limit_seconds # None /\ session.time_limit_seconds[1] # 0
            THEN Some(session.time_limit_seconds[1] - elapsed)
            ELSE None
    IN  IF pending = None THEN None
        ELSE Some([session_id |-> session.id,
                   question |-> [id |-> row.id,
                                 question_order |-> row.question_order,
                                 question_id |-> question.id,
                                 subject |-> question.subject,
                                 topic |-> question.topic,
                                 difficulty |-> question.difficulty],
                   current_question_number |-> Cardinality(Answered(rows)) + 1,
                   total_questions |-> session.question_count,
                   time_remaining_seconds |-> time_remaining,
                   session_elapsed_seconds |-> elapsed])

\* NextQuestionResult numbering the current question from the answered count alone
NextQuestionResult_NoPlusOne(session, rows, cat, t) ==
    LET pending == PendingQuestion(rows, cat)
        row == pending[1].psq
        question == pending[1].question
        elapsed == t - session.started_at
        time_remaining ==
            IF session.time_limit_seconds # None /\ session.time_limit_seconds[1] # 0
            THEN Some(Max(0, session.time_limit_seconds[1] - elapsed))
            ELSE None
    IN  IF pending = None THEN None
        ELSE Some([session_id |-> session.id,
                   question |-> [id |-> row.id,
                                 question_order |-> row.question_order,
                                 question_id |-> question.id,
                                 subject |-> question.subject,
                                 topic |-> question.topic,
                                 difficulty |-> question.difficulty],
                   current_question_number |-> Cardinality(Answered(rows)),
                   total_questions |-> session.question_count,
                   time_remaining_seconds |-> time_remaining,
                   session_elapsed_seconds |-> elapsed])

\* what get_next_question returns for an in_progress session of the caller
NextQuestionResult(session, rows, cat, t) ==
    LET pending == PendingQuestion(rows, cat)
        row == pending[1].psq
        question == pending[1].question
        elapsed == t - session.started_at
        time_remaining ==
            IF session.time_limit_seconds # None /\ session.time_limit_seconds[1] # 0
            THEN Some(Max(0, session.time_limit_seconds[1] - elapsed))
            ELSE None
    IN  IF pending = None THEN None
        ELSE Some([session_id |-> session.id,
                   question |-> [id |-> row.id,
                                 question_order |-> row.question_order,
                                 question_id |-> question.id,
                                 subject |-> question.subject,
                                 topic |-> question.topic,
                                 difficulty |-> question.difficulty],
                   current_question_number |-> Cardinality(Answered(rows)) + 1,
                   total_questions |-> session.question_count,
                   time_remaining_seconds |-> time_remaining,
                   session_elapsed_seconds |-> elapsed])

\* GetNextQuestion completing the session when no question is left
GetNextQuestion_AutoComplete(sid, user) ==
    /\  LET session == GetSession(sid, user)
            rv == IF ~SessionOpen(session) THEN None
                  ELSE NextQuestionResult(session[1], psq[sid], questions, now)
        IN  /\ ret' = [op |-> "next", sid |-> sid, user |-> user, rv |-> rv]
            /\ sessions' = IF SessionOpen(session) /\ rv = None
                           THEN [sessions EXCEPT ![sid].status = COMPLETED]
                           ELSE sessions
    /\ UNCHANGED <<questions, psq, scores, now, procs>>

GetNextQuestion(sid, user) ==
    /\  LET session == GetSession(sid, user)
        IN  ret' = [op |-> "next", sid |-> sid, user |-> user,
                    rv |-> IF ~SessionOpen(session)
                           THEN None
                           ELSE NextQuestionResult(session[1], psq[sid],
                                                   questions, now)]
    /\ UNCHANGED <<questions, sessions, psq, scores, now, procs>>

\* AnswerUpdate without "is_correct" among the columns it sets
AnswerUpdate_NoIsCorrect(rows, id, answer, is_correct, time_taken, t) ==
    [i \in DOMAIN rows |->
        IF rows[i].id = id
        THEN [rows[i] EXCEPT !.user_answer = Some(answer),
                             !.time_taken_seconds = Some(time_taken),
                             !.answered_at = Some(t)]
        ELSE rows[i]]

\* update(...).eq("id", psq["id"]) on practice_session_questions
AnswerUpdate(rows, id, answer, is_correct, time_taken, t) ==
    [i \in DOMAIN rows |->
        IF rows[i].id = id
        THEN [rows[i] EXCEPT !.user_answer = Some(answer),
                             !.is_correct = Some(is_correct),
                             !.time_taken_seconds = Some(time_taken),
                             !.answered_at = Some(t)]
        ELSE rows[i]]

\* update(update_q).eq("id", question["id"]) on questions, from the counters
\* of the question as it was read with the pending row
UsageUpdate(cat, question, is_correct) ==
    [i \in DOMAIN cat |->
        IF cat[i].id = question.id
        THEN [cat[i] EXCEPT
                !.times_used = question.times_used + 1,
                !.times_correct = IF is_correct THEN question.times_correct + 1
                                  ELSE @]
        ELSE cat[i]]

\* the progress part of what submit_answer returns
SubmitResult(session, rows, question, is_correct, time_taken) ==
    LET answered_count == Cardinality(Answered(rows))
        correct_count == Cardinality({i \in Answered(rows) :
                                        rows[i].is_correct = Some(TRUE)})
        accuracy == IF answered_count > 0
                    THEN Frac(correct_count * 100, answered_count)
                    ELSE Frac(0, 1)
    IN  [is_correct |-> is_correct,
         correct_answer |-> question.correct_answer,
         time_taken_seconds |-> time_taken,
         points_earned |-> IF is_correct THEN 10 ELSE 0,
         questions_answered |-> answered_count,
         questions_remaining |-> session.question_count - answered_count,
         current_score |-> correct_count,
         current_accuracy |-> RoundTenths(accuracy)]

SubmitAnswer(sid, user, answer, time_taken_seconds) ==
    /\  LET session == GetSession(sid, user)
            pending == IF SessionOpen(session) THEN PendingQuestion(psq[sid], questions) ELSE None
        IN  IF pending = None
            THEN /\ ret' = [op |-> "submit", sid |-> sid, user |-> user,
                            rv |-> None]
                 /\ UNCHANGED <<questions, psq, scores>>
            ELSE LET row == pending[1].psq
                     question == pending[1].question
                     is_correct == (answer = question.correct_answer)
                 IN  /\ psq' = [psq EXCEPT ![sid] =
                                  AnswerUpdate(@, row.id, answer, is_correct,
                                               time_taken_seconds, now)]
                     /\ questions' = UsageUpdate(questions, question, is_correct)
                     /\ scores' = UpdateConceptScore(scores, user,
                                      question.subject, question.topic,
                                      question.subtopic, question.difficulty,
                                      is_correct, time_taken_seconds, now)
                     /\ ret' = [op |-> "submit", sid |-> sid, user |-> user,
                                rv |-> Some(SubmitResult(session[1], psq'[sid],
                                              question, is_correct,
                                              time_taken_seconds))]
    /\ UNCHANGED <<sessions, now, procs>>

----------------------------------------------------------------------------
(* Session aggregator *)

\* .order("question_order"): the rows by ascending question_order, rows of
\* equal question_order in table order
OrderByQuestionOrder(rows) ==
    [k \in 1..Len(rows) |->
        rows[CHOOSE i \in DOMAIN rows :
                Cardinality({j \in DOMAIN rows :
                    \/ rows[j].question_order < rows[i].question_order
                    \/ /\ rows[j].question_order = rows[i].question_order
                       /\ j < i}) = k - 1]]

\* the keys of topic_stats, in the order the loop meets them
RECURSIVE TopicsInOrder(_)
TopicsInOrder(ts) ==
    IF ts = <<>> THEN <<>>
    ELSE <<Head(ts)>> \o
         TopicsInOrder(SelectSeq(Tail(ts), LAMBDA x : x # Head(ts)))

\* EndResult listing a topic as strong only above 80%
EndResult_StrongAbove(session, rows, cat, abandoned, t) ==
    LET qs == OrderByQuestionOrder(rows)
        total_time == t - session.started_at
        IsCorrect(q) == q.is_correct = Some(TRUE)
        Of(d) == SelectSeq(qs, LAMBDA q : q.difficulty = d)
        total == Len(qs)
        correct == Len(SelectSeq(qs, IsCorrect))
        wrong == Len(SelectSeq(qs, LAMBDA q : q.is_correct = Some(FALSE)))
        skipped == Len(SelectSeq(qs, LAMBDA q : q.user_answer = None))
        timed == SelectSeq(qs, LAMBDA q :
                    q.time_taken_seconds # None /\ q.time_taken_seconds[1] # 0)
        times == [i \in DOMAIN timed |-> timed[i].time_taken_seconds[1]]
        avg_time == IF times # <<>> THEN Frac(SeqSum(times), Len(times))
                    ELSE Frac(0, 1)
        TopicOf(q) == cat[q.question_id].topic
        topic_total(tp) == Len(SelectSeq(qs, LAMBDA q : TopicOf(q) = tp))
        topic_correct(tp) == Len(SelectSeq(qs, LAMBDA q : TopicOf(q) = tp /\ IsCorrect(q)))
        topics == TopicsInOrder([i \in DOMAIN qs |-> TopicOf(qs[i])])
        score_pct == IF total > 0 THEN Frac(correct * 100, total) ELSE Frac(0, 1)
    IN  [summary |->
           [session_id |-> session.id,
            status |-> IF abandoned THEN ABANDONED ELSE COMPLETED,
            subject |-> session.subject,
            topic |-> session.topic,
            total_questions |-> total,
            correct_answers |-> correct,
            wrong_answers |-> wrong,
            skipped |-> skipped,
            score_pct |-> score_pct,
            score_percentage |-> RoundTenths(score_pct),
            total_time_seconds |-> total_time,
            avg_time |-> avg_time,
            avg_time_per_question |-> RoundTenths(avg_time),
            time_limit_seconds |-> session.time_limit_seconds,
            total_by |-> [d \in DifficultyLevel |-> Len(Of(d))],
            correct_by |-> [d \in DifficultyLevel |-> Len(SelectSeq(Of(d), IsCorrect))],
            weak_topics |-> SelectSeq(topics, LAMBDA tp :
                               2 * topic_correct(tp) < topic_total(tp)),
            strong_topics |-> SelectSeq(topics, LAMBDA tp :
                               5 * topic_correct(tp) > 4 * topic_total(tp)),
            started_at |-> session.started_at,
            ended_at |-> t],
         questions_review |->
           [i \in DOMAIN qs |->
               [question_order |-> qs[i].question_order,
                question_id |-> qs[i].question_id,
                correct_answer |-> cat[qs[i].question_id].correct_answer,
                user_answer |-> qs[i].user_answer,
                is_correct |-> qs[i].is_correct,
                time_taken_seconds |-> qs[i].time_taken_seconds,
                topic |-> TopicOf(qs[i]),
                difficulty |-> cat[qs[i].question_id].difficulty]]]

\* the SessionSummary end_session builds from the rows, and its review list
EndResult(session, rows, cat, abandoned, t) ==
    LET qs == OrderByQuestionOrder(rows)
        total_time == t - session.started_at
        IsCorrect(q) == q.is_correct = Some(TRUE)
        Of(d) == SelectSeq(qs, LAMBDA q : q.difficulty = d)
        total == Len(qs)
        correct == Len(SelectSeq(qs, IsCorrect))
        wrong == Len(SelectSeq(qs, LAMBDA q : q.is_correct = Some(FALSE)))
        skipped == Len(SelectSeq(qs, LAMBDA q : q.user_answer = None))
        timed == SelectSeq(qs, LAMBDA q :
                    q.time_taken_seconds # None /\ q.time_taken_seconds[1] # 0)
        times == [i \in DOMAIN timed |-> timed[i].time_taken_seconds[1]]
        avg_time == IF times # <<>> THEN Frac(SeqSum(times), Len(times))
                    ELSE Frac(0, 1)
        TopicOf(q) == cat[q.question_id].topic
        topic_total(tp) == Len(SelectSeq(qs, LAMBDA q : TopicOf(q) = tp))
        topic_correct(tp) == Len(SelectSeq(qs, LAMBDA q : TopicOf(q) = tp /\ IsCorrect(q)))
        topics == TopicsInOrder([i \in DOMAIN qs |-> TopicOf(qs[i])])
        score_pct == IF total > 0 THEN Frac(correct * 100, total) ELSE Frac(0, 1)
    IN  [summary |->
           [session_id |-> session.id,
            status |-> IF abandoned THEN ABANDONED ELSE COMPLETED,
            subject |-> session.subject,
            topic |-> session.topic,
            total_questions |-> total,
            correct_answers |-> correct,
            wrong_answers |-> wrong,
            skipped |-> skipped,
            score_pct |-> score_pct,
            score_percentage |-> RoundTenths(score_pct),
            total_time_seconds |-> total_time,
            avg_time |-> avg_time,
            avg_time_per_question |-> RoundTenths(avg_time),
            time_limit_seconds |-> session.time_limit_seconds,
            total_by |-> [d \in DifficultyLevel |-> Len(Of(d))],
            correct_by |-> [d \in DifficultyLevel |-> Len(SelectSeq(Of(d), IsCorrect))],
            weak_topics |-> SelectSeq(topics, LAMBDA tp :
                               2 * topic_correct(tp) < topic_total(tp)),
            strong_topics |-> SelectSeq(topics, LAMBDA tp :
                               5 * topic_correct(tp) >= 4 * topic_total(tp)),
            started_at |-> session.started_at,
            ended_at |-> t],
         questions_review |->
           [i \in DOMAIN qs |->
               [question_order |-> qs[i].question_order,
                question_id |-> qs[i].question_id,
                correct_answer |-> cat[qs[i].question_id].correct_answer,
                user_answer |-> qs[i].user_answer,
                is_correct |-> qs[i].is_correct,
                time_taken_seconds |-> qs[i].time_taken_seconds,
                topic |-> TopicOf(qs[i]),
                difficulty |-> cat[qs[i].question_id].difficulty]]]

\* SessionUpdate without "status" among the columns it sets
SessionUpdate_NoStatus(ss, sid, summary) ==
    [i \in DOMAIN ss |->
        IF ss[i].id = sid
        THEN [ss[i] EXCEPT
                !.ended_at = Some(summary.ended_at),
                !.total_questions = Some(summary.total_questions),
                !.correct_answers = Some(summary.correct_answers),
                !.wrong_answers = Some(summary.wrong_answers),
                !.skipped = Some(summary.skipped),
                !.total_time_seconds = Some(summary.total_time_seconds),
                !.avg_time_per_question = Some(summary.avg_time),
                !.score_percentage = Some(summary.score_pct)]
        ELSE ss[i]]

\* update({...}).eq("id", session_id) on practice_sessions
SessionUpdate(ss, sid, summary) ==
    [i \in DOMAIN ss |->
        IF ss[i].id = sid
        THEN [ss[i] EXCEPT
                !.status = summary.status,
                !.ended_at = Some(summary.ended_at),
                !.total_questions = Some(summary.total_questions),
                !.correct_answers = Some(summary.correct_answers),
                !.wrong_answers = Some(summary.wrong_answers),
                !.skipped = Some(summary.skipped),
                !.total_time_seconds = Some(summary.total_time_seconds),
                !.avg_time_per_question = Some(summary.avg_time),
                !.score_percentage = Some(summary.score_pct)]
        ELSE ss[i]]

\* the body of end_session for a caller whose session was found
EndSessionFound(op, sid, user, abandoned) ==
    \E result \in {EndResult(sessions[sid], psq[sid], questions, abandoned, now)} :
        /\ sessions' = SessionUpdate(sessions, sid, result.summary)
        /\ ret' = [op |-> op, sid |-> sid, user |-> user, rv |-> Some(result)]

EndSession(sid, user, abandoned) ==
    /\  IF GetSession(sid, user) = None
        THEN /\ ret' = [op |-> "end", sid |-> sid, user |-> user, rv |-> None]
             /\ UNCHANGED sessions
        ELSE EndSessionFound("end", sid, user, abandoned)
    /\ UNCHANGED <<questions, psq, scores, now, procs>>

GetSessionReview(sid, user) ==
    /\  LET session == GetSession(sid, user)
        IN  IF session = None \/ session[1].status = IN_PROGRESS
            THEN /\ ret' = [op |-> "review", sid |-> sid, user |-> user,
                            rv |-> None]
                 /\ UNCHANGED sessions
            ELSE EndSessionFound("review", sid, user, FALSE)
    /\ UNCHANGED <<questions, psq, scores, now, procs>>

Tick ==
    /\ now < MaxTicks * TickSeconds
    /\ now' = now + TickSeconds
    /\ UNCHANGED <<questions, sessions, psq, scores, ret, procs>>

----------------------------------------------------------------------------
(* The session machine driven by its callers: any user calls any operation *)
(* on any session id, the generator answers with at most MaxGen drafts.    *)

SessionIds == 1..MaxSessions

Init ==
    /\ questions \in {<<>>, SeedCatalog}
    /\ sessions = <<>>
    /\ psq = <<>>
    /\ scores = <<>>
    /\ now = 0
    /\ ret = [op |-> "init", sid |-> 0, user |-> "", rv |-> None]
    /\ procs = <<>>

Start ==
    /\ Len(sessions) < MaxSessions
    /\ \E user \in Users, subject \in Subjects, topic \in {Some("Algebra")},
          difficulty \in {None, Some("hard")}, count \in MinCount..MaxCount,
          limit \in TimeLimits :
        StartSession(Gemini(MaxGen), user, subject, topic, difficulty,
                     count, limit)

NextQ == \E sid \in SessionIds, user \in Users : GetNextQuestion(sid, user)

Submit ==
    \E sid \in SessionIds, user \in Users, answer \in Answers,
       time_taken_seconds \in {MaxTaken} :
        SubmitAnswer(sid, user, answer, time_taken_seconds)

End ==
    \E sid \in SessionIds, user \in Users, abandoned \in BOOLEAN :
        EndSession(sid, user, abandoned)

Review == \E sid \in SessionIds, user \in Users : GetSessionReview(sid, user)

Next ==
    \/ Start
    \/ NextQ
    \/ Submit
    \/ End
    \/ Review
    \/ Tick

Spec == Init /\ [][Next]_vars

\* start_session alone, the generator answering a request with up to
\* MaxGenLong drafts: fewer than asked, as many, or more
StartLong ==
    /\ Len(sessions) < MaxSessions
    /\ \E user \in Users, subject \in Subjects, topic \in {Some("Algebra")},
          difficulty \in {None, Some("hard")}, count \in MinCount..MaxCount,
          limit \in TimeLimits :
        StartSession(Gemini(MaxGenLong), user, subject, topic, difficulty,
                     count, limit)

NextStart ==
    \/ StartLong
    \/ NextQ

SpecStart == Init /\ [][NextStart]_vars

\* the selector and the difficulty recommendation on their own: onboarding
\* seeds concept scores of users and topics, the selector is asked for the
\* distribution of a session of any size, the recommendation is computed
\* for an accuracy
OnboardingResults == {<<3, 1>>, <<5, 2>>, <<10, 7>>, <<10, 10>>}

Accuracies ==
    {Frac(k, 100) : k \in {0, 3999, 4000, 4001, 6999, 7000, 7001, 10000}}
    \cup {MasteryScore([total_attempts |-> r[1], correct_attempts |-> r[2]]) :
            r \in OnboardingResults}

Onboard ==
    /\ \E user \in Users, topic \in {"Algebra", "Geometry"},
          r \in OnboardingResults :
        /\ scores' = UpsertConceptScore(scores, user, "Mathematics", topic,
                                        r[1], r[2], now)
        /\ Len(scores') <= MaxSeeded
        /\ ret' = [op |-> "onboard", sid |-> 0, user |-> user, rv |-> None]
    /\ UNCHANGED <<questions, sessions, psq, now, procs>>

Distribute ==
    /\ \E user \in {"u1"}, subject \in Subjects,
          topic \in {None, Some("Algebra")},
          count \in MinCount..MaxQuestionCount :
        ret' = [op |-> "distribution", sid |-> 0, user |-> user,
                rv |-> Some([subject |-> subject, topic |-> topic,
                             count |-> count,
                             difficulties |->
                                GetAdaptiveDifficultyDistribution(scores,
                                    user, subject, topic, count)])]
    /\ UNCHANGED <<questions, sessions, psq, scores, now, procs>>

Recommend ==
    /\ \E accuracy \in Accuracies :
        ret' = [op |-> "recommended", sid |-> 0, user |-> "",
                rv |-> Some([accuracy |-> accuracy,
                             difficulty |->
                                CalculateRecommendedDifficulty(accuracy)])]
    /\ UNCHANGED <<questions, sessions, psq, scores, now, procs>>

NextSelector ==
    \/ Onboard
    \/ Distribute
    \/ Recommend

InitSelector ==
    /\ questions = <<>>
    /\ sessions = <<>>
    /\ psq = <<>>
    /\ scores = <<>>
    /\ now = 0
    /\ ret = [op |-> "init", sid |-> 0, user |-> "", rv |-> None]
    /\ procs = <<>>

SpecSelector == InitSelector /\ [][NextSelector]_vars

\* the mastery tracker on its own: _update_concept_score as submit_answer
\* calls it, for any series of at most MaxAttempts answers of users to
\* questions of two subtopics
Attempts(sc) == SeqSum([i \in DOMAIN sc |-> sc[i].total_attempts])

Answer ==
    /\ Attempts(scores) < MaxAttempts
    /\ \E user \in Users, subtopic \in {None, Some("Linear")},
          difficulty \in {"easy", "hard"}, is_correct \in BOOLEAN :
        /\ scores' = UpdateConceptScore(scores, user, "Mathematics", "Algebra",
                                        subtopic, difficulty, is_correct,
                                        MaxTaken, now)
        /\ ret' = [op |-> "answer", sid |-> 0, user |-> user,
                   rv |-> Some([subject |-> "Mathematics", topic |-> "Algebra",
                                subtopic |-> subtopic,
                                difficulty |-> difficulty,
                                is_correct |-> is_correct,
                                time_taken |-> MaxTaken])]
    /\ UNCHANGED <<questions, sessions, psq, now, procs>>

SpecTracker == InitSelector /\ [][Answer]_vars

\* the catalog lookup on its own: any catalog of at most MaxCatalog imported
\* questions of two classes, subjects, topics and difficulties, looked up
\* with any exclusion list
CatalogRows ==
    [class_level : {10, 12}, subject : {"Mathematics", "Science"},
     topic : {"Algebra", "Geometry"}, difficulty : {"easy", "hard"}]

CatalogRow(id, r) ==
    [id |-> id, external_id |-> None, subject |-> r.subject,
     topic |-> r.topic, subtopic |-> None, difficulty |-> r.difficulty,
     class_level |-> r.class_level, correct_answer |-> "A",
     times_used |-> 0, times_correct |-> 0]

Catalogs ==
    UNION {{[i \in 1..n |-> CatalogRow(i, rs[i])] : rs \in [1..n -> CatalogRows]} :
            n \in 0..MaxCatalog}

InitLookup ==
    /\ questions \in Catalogs
    /\ sessions = <<>>
    /\ psq = <<>>
    /\ scores = <<>>
    /\ now = 0
    /\ ret = [op |-> "init", sid |-> 0, user |-> "", rv |-> None]
    /\ procs = <<>>

Lookup ==
    /\ \E topic \in {None, Some("Algebra")}, difficulty \in {"easy", "hard"},
          exclude_ids \in SUBSET (1..MaxCatalog) :
        LET cached == GetCachedQuestion(questions, DefaultClassLevel,
                          "Mathematics", topic, difficulty, exclude_ids)
        IN  \E result \in IF cached = {} THEN {None}
                           ELSE {Some(c) : c \in cached} :
                ret' = [op |-> "lookup", sid |-> 0, user |-> "",
                        rv |-> Some([class_level |-> DefaultClassLevel,
                                     subject |-> "Mathematics",
                                     topic |-> topic,
                                     difficulty |-> difficulty,
                                     exclude_ids |-> exclude_ids,
                                     result |-> result])]
    /\ UNCHANGED <<questions, sessions, psq, scores, now, procs>>

SpecLookup == InitLookup /\ [][Lookup]_vars

\* a whole session answered in order: start_session with a pinned difficulty
\* and a generator answering with up to MaxGenLong drafts, then submits
StartSeries ==
    /\ Len(sessions) < MaxSessions
    /\ \E user \in Users :
        StartSession(Gemini(MaxGenLong), user, "Mathematics", Some("Algebra"),
                     Some("hard"), MinCount, None)

NextSeries ==
    \/ StartSeries
    \/ Submit

SpecSeries == Init /\ [][NextSeries]_vars

\* the same machine with a caller who does not walk away: the owner of a
\* session in progress ends it sooner or later
OwnerEnd ==
    \E sid \in DOMAIN sessions, abandoned \in BOOLEAN :
        /\ sessions[sid].status = IN_PROGRESS
        /\ EndSession(sid, sessions[sid].user_id, abandoned)

StartLive ==
    /\ Len(sessions) < MaxSessions
    /\ \E user \in Users, difficulty \in {None, Some("hard")} :
        StartSession(Gemini(MaxGen), user, "Mathematics", Some("Algebra"),
                     difficulty, MinCount, None)

NextLive ==
    \/ StartLive
    \/ NextQ
    \/ Submit
    \/ End
    \/ Review

SpecLive ==
    Init /\ [][NextLive]_vars /\ WF_vars(OwnerEnd)

----------------------------------------------------------------------------
(* submit_answer as the requests of several callers run it: one step per   *)
(* round trip to the database, the steps of different requests interleave. *)
(* procs[p] holds what request p has read so far and what it returned.     *)

Idle == [pc |-> "idle", sid |-> 0, user |-> "", answer |-> "", time_taken |-> 0,
         session |-> None, pending |-> None, found |-> <<>>, rv |-> None]

Returned(p, rv) == [procs[p] EXCEPT !.pc = "done", !.session = None,
                                     !.found = <<>>, !.rv = rv]

IsCorrectAnswer(pr) == pr.answer = pr.pending[1].question.correct_answer

\* session = await self._get_session(...); the status check
SubmitGetSession(p, sid, user, answer, time_taken_seconds) ==
    /\ procs[p].pc = "idle"
    /\ LET session == GetSession(sid, user)
           call == [procs[p] EXCEPT !.sid = sid, !.user = user,
                                    !.answer = answer,
                                    !.time_taken = time_taken_seconds]
       IN  procs' = [procs EXCEPT ![p] =
                IF ~SessionOpen(session)
                THEN [call EXCEPT !.pc = "done"]
                ELSE [call EXCEPT !.pc = "select", !.session = session]]
    /\ UNCHANGED <<questions, sessions, psq, scores, now, ret>>

\* the select of the current unanswered question
SubmitSelect(p) ==
    /\ procs[p].pc = "select"
    /\ LET pending == PendingQuestion(psq[procs[p].sid], questions)
       IN  procs' = [procs EXCEPT ![p] =
                IF pending = None THEN Returned(p, None)
                ELSE [@ EXCEPT !.pc = "update_answer", !.pending = pending]]
    /\ UNCHANGED <<questions, sessions, psq, scores, now, ret>>

\* the update of the practice_session_questions row
SubmitUpdateAnswer(p) ==
    /\ procs[p].pc = "update_answer"
    /\ psq' = [psq EXCEPT ![procs[p].sid] =
                AnswerUpdate(@, procs[p].pending[1].psq.id, procs[p].answer,
                             IsCorrectAnswer(procs[p]), procs[p].time_taken, now)]
    /\ procs' = [procs EXCEPT ![p].pc = "update_usage"]
    /\ UNCHANGED <<questions, sessions, scores, now, ret>>

\* the update of the question's usage counters
SubmitUpdateUsage(p) ==
    /\ procs[p].pc = "update_usage"
    /\ questions' = UsageUpdate(questions, procs[p].pending[1].question,
                                IsCorrectAnswer(procs[p]))
    /\ procs' = [procs EXCEPT ![p].pc = "query_score"]
    /\ UNCHANGED <<sessions, psq, scores, now, ret>>

\* the query of _update_concept_score
SubmitQueryScore(p) ==
    /\ procs[p].pc = "query_score"
    /\ LET question == procs[p].pending[1].question
       IN  procs' = [procs EXCEPT ![p].pc = "write_score",
                        ![p].found = ConceptScoreQuery(scores, procs[p].user,
                            question.subject, question.topic, question.subtopic)]
    /\ UNCHANGED <<questions, sessions, psq, scores, now, ret>>

\* the update or insert of _update_concept_score
SubmitWriteScore(p) ==
    /\ procs[p].pc = "write_score"
    /\ LET question == procs[p].pending[1].question
       IN  scores' = ConceptScoreWrite(scores, procs[p].found, procs[p].user,
                        question.subject, question.topic, question.subtopic,
                        question.difficulty, IsCorrectAnswer(procs[p]),
                        procs[p].time_taken, now)
    /\ procs' = [procs EXCEPT ![p].pc = "progress"]
    /\ UNCHANGED <<questions, sessions, psq, now, ret>>

\* the select of the answers so far, and the return
SubmitProgress(p) ==
    /\ procs[p].pc = "progress"
    /\ procs' = [procs EXCEPT ![p] = Returned(p,
                    Some(SubmitResult(procs[p].session[1], psq[procs[p].sid],
                            procs[p].pending[1].question,
                            IsCorrectAnswer(procs[p]), procs[p].time_taken)))]
    /\ UNCHANGED <<questions, sessions, psq, scores, now, ret>>

InitConc ==
    /\ questions = SeedCatalog
    /\ sessions = <<>>
    /\ psq = <<>>
    /\ scores = <<>>
    /\ now = 0
    /\ ret = [op |-> "init", sid |-> 0, user |-> "", rv |-> None]
    /\ procs = [p \in 1..MaxProcs |-> Idle]

StartConc ==
    /\ Len(sessions) < MaxSessions
    /\ \E user \in Users, limit \in TimeLimits :
        StartSession(Gemini(MaxGen), user, "Mathematics", Some("Algebra"),
                     None, MinCount, limit)

SubmitConc ==
    \E p \in DOMAIN procs :
        \/ \E sid \in SessionIds, user \in Users, answer \in Answers :
              SubmitGetSession(p, sid, user, answer, MaxTaken)
        \/ SubmitSelect(p)
        \/ SubmitUpdateAnswer(p)
        \/ SubmitUpdateUsage(p)
        \/ SubmitQueryScore(p)
        \/ SubmitWriteScore(p)
        \/ SubmitProgress(p)

NextConc ==
    \/ StartConc
    \/ SubmitConc
    \/ Tick

SpecConc == InitConc /\ [][NextConc]_vars

----------------------------------------------------------------------------
(* start_session as the requests of several callers run it: the session    *)
(* insert and the catalog lookups, then one step per generator call, per   *)
(* select by external_id and per insert of a generated draft, then the     *)
(* insert of the session's rows.                                           *)

IdleStart == [pc |-> "idle", sid |-> 0, user |-> "", difficulty |-> "",
              qs |-> <<>>, diff_counts |-> <<>>, todo |-> <<>>, raised |-> 0]

\* what the insert of a row whose external_id the table already holds can
\* do: add the row (no constraint on external_id) or raise (a uniqueness
\* constraint); the definition of the table is not part of the sources
DuplicateInsertOutcomes == {"inserted", "raised"}

\* str(uuid.uuid4()): an id no row of the catalog has
Uuid4(p, n) == 0 - (p * (2 * MaxCount + 2) + n)

\* question_data of _generate_and_cache_questions
QuestionData(id, class_level, subject, topic, difficulty, q) ==
    [id |-> id, external_id |-> Some(ExternalId(q)),
     subject |-> subject, topic |-> topic, subtopic |-> None,
     difficulty |-> difficulty, class_level |-> class_level,
     correct_answer |-> q.correct_answer,
     times_used |-> 0, times_correct |-> 0]

\* the step after a draft is dealt with: the next draft, the next
\* difficulty, or the insert of the rows
AfterDraft(pr, row, raised) ==
    LET rest == Tail(pr.todo)
        left == IF rest = <<>> THEN Tail(pr.diff_counts) ELSE pr.diff_counts
    IN  [pr EXCEPT !.qs = Append(@, row),
                   !.todo = rest,
                   !.diff_counts = left,
                   !.raised = @ + (IF raised THEN 1 ELSE 0),
                   !.pc = IF rest # <<>> THEN "check"
                          ELSE IF left # <<>> THEN "generate" ELSE "rows"]

\* the insert of the session, the difficulties and the loop over the cache
StartBegin(p, user) ==
    /\ procs[p].pc = "idle"
    /\ LET session_id == Len(sessions) + 1
           difficulties == Repeat("hard", MinCount)
       IN  /\ sessions' = Append(sessions,
                  SessionRow(session_id, user, DefaultClassLevel, "Mathematics",
                             Some("Algebra"), Some("hard"), MinCount, None, now))
           /\ psq' = Append(psq, <<>>)
           /\ \E qs \in CachedLoop(questions, DefaultClassLevel, "Mathematics",
                                    Some("Algebra"), difficulties, <<>>) :
                LET left == IF MinCount - Len(qs) > 0
                            THEN DiffCounts(SubSeq(difficulties, Len(qs) + 1,
                                                   Len(difficulties)))
                            ELSE <<>>
                IN  procs' = [procs EXCEPT ![p] =
                        [@ EXCEPT !.sid = session_id, !.user = user,
                                  !.qs = qs, !.diff_counts = left,
                                  !.pc = IF left # <<>> THEN "generate"
                                         ELSE "rows"]]
    /\ UNCHANGED <<questions, scores, now, ret>>

\* generated = await gemini_client.generate_questions(...)
StartGenerate(p) ==
    /\ procs[p].pc = "generate"
    /\ \E generated \in Gemini(MaxGen)[Head(procs[p].diff_counts).cnt] :
        procs' = [procs EXCEPT ![p] =
            IF generated # <<>>
            THEN [@ EXCEPT !.todo = generated,
                           !.difficulty = Head(procs[p].diff_counts).diff,
                           !.pc = "check"]
            ELSE [@ EXCEPT !.diff_counts = Tail(@),
                           !.pc = IF Tail(procs[p].diff_counts) # <<>>
                                  THEN "generate" ELSE "rows"]]
    /\ UNCHANGED <<questions, sessions, psq, scores, now, ret>>

\* existing = select * from questions where external_id = ...
StartCheck(p) ==
    /\ procs[p].pc = "check"
    /\ LET external_id == ExternalId(Head(procs[p].todo))
           existing == SelectSeq(questions,
                            LAMBDA r : r.external_id = Some(external_id))
       IN  procs' = [procs EXCEPT ![p] =
                IF existing # <<>>
                THEN AfterDraft(procs[p], existing[1], FALSE)
                ELSE [@ EXCEPT !.pc = "insert"]]
    /\ UNCHANGED <<questions, sessions, psq, scores, now, ret>>

\* the insert of question_data, and the except branch when it raises
StartInsert(p) ==
    /\ procs[p].pc = "insert"
    /\ LET q == Head(procs[p].todo)
           conflict == \E i \in DOMAIN questions :
                          questions[i].external_id = Some(ExternalId(q))
           stored == QuestionData(Len(questions) + 1, DefaultClassLevel,
                        "Mathematics", "Algebra", procs[p].difficulty, q)
           unsaved == QuestionData(Uuid4(p, Len(procs[p].qs) + 1),
                        DefaultClassLevel, "Mathematics", "Algebra",
                        procs[p].difficulty, q)
       IN  \E outcome \in IF conflict THEN DuplicateInsertOutcomes
                           ELSE {"inserted"} :
              IF outcome = "inserted"
              THEN /\ questions' = Append(questions, stored)
                   /\ procs' = [procs EXCEPT ![p] =
                                    AfterDraft(procs[p], stored, FALSE)]
              ELSE /\ UNCHANGED questions
                   /\ procs' = [procs EXCEPT ![p] =
                                    AfterDraft(procs[p], unsaved, TRUE)]
    /\ UNCHANGED <<sessions, psq, scores, now, ret>>

\* the insert of session_questions_data; question_id references questions
\* (the selects embed questions(*) through that reference), so rows with an
\* id the catalog does not hold make the insert, and the request, fail
StartRows(p) ==
    /\ procs[p].pc = "rows"
    /\ LET rows == SubSeq(procs[p].qs, 1, Min(MinCount, Len(procs[p].qs)))
           known == \A i \in DOMAIN rows : rows[i].id \in Ids(questions)
       IN  /\ psq' = IF known
                     THEN [psq EXCEPT ![procs[p].sid] =
                            [i \in DOMAIN rows |->
                                SessionQuestionRow(procs[p].sid, i, rows[i])]]
                     ELSE psq
           /\ procs' = [procs EXCEPT ![p].pc = IF known THEN "done" ELSE "failed",
                                     ![p].qs = rows]
    /\ UNCHANGED <<questions, sessions, scores, now, ret>>

InitStarts ==
    /\ questions \in {<<>>, SeedCatalog}
    /\ sessions = <<>>
    /\ psq = <<>>
    /\ scores = <<>>
    /\ now = 0
    /\ ret = [op |-> "init", sid |-> 0, user |-> "", rv |-> None]
    /\ procs = [p \in 1..MaxProcs |-> IdleStart]

NextStarts ==
    \E p \in DOMAIN procs :
        \/ \E user \in Users : StartBegin(p, user)
        \/ StartGenerate(p)
        \/ StartCheck(p)
        \/ StartInsert(p)
        \/ StartRows(p)

SpecStarts == InitStarts /\ [][NextStarts]_vars

----------------------------------------------------------------------------
(* Properties *)

Tables == <<questions, sessions, psq, scores>>

Exists(sid) == sid \in DOMAIN sessions
Owner(sid) == sessions[sid].user_id
Terminal(sid) == Exists(sid) /\ sessions[sid].status \in {COMPLETED, ABANDONED}
InProgress(sid) == Exists(sid) /\ sessions[sid].status = IN_PROGRESS
AllAnswered(sid) == Exists(sid) /\ Unanswered(psq[sid]) = {}

\* the request p has written the answer of the row it selected
HasWritten(p) ==
    /\ procs[p].pending # None
    /\ procs[p].pc \in {"update_usage", "query_score", "write_score",
                        "progress", "done"}

\* C1: of two submit requests on a session that both selected the same
\* lowest-order unanswered row, at most one writes the row's answer.
C1_AtMostOneWriter ==
    \A p, q \in DOMAIN procs :
        (p # q /\ HasWritten(p) /\ HasWritten(q)) =>
            ~ (/\ procs[p].sid = procs[q].sid
               /\ procs[p].pending[1].psq.id = procs[q].pending[1].psq.id)

\* C2: once a session is completed or abandoned, no call changes its status.
C2_TerminalStatusIsFinal ==
    [][\A sid \in DOMAIN sessions :
          sessions[sid].status # IN_PROGRESS =>
              sessions'[sid].status = sessions[sid].status]_vars

\* C3: two end() calls in a row on a session, made with the same abandoned
\* flag, return the same SessionSummary (counts, score, total_time_seconds,
\* ended_at).
C3_EndTwiceSameSummary ==
    [][(/\ ret.op = "end" /\ ret'.op = "end"
        /\ ret'.sid = ret.sid /\ ret'.user = ret.user
        /\ ret.rv # None /\ ret'.rv # None
        /\ ret'.rv[1].summary.status = ret.rv[1].summary.status)
       => ret'.rv[1].summary = ret.rv[1].summary]_vars

\* C4: submit() on a session whose rows are all answered returns NotFound and
\* changes no table; a row whose answer is set never changes again.
C4_SubmitWriteOnce ==
    [][/\ \A sid \in SessionIds, user \in Users, answer \in Answers,
             time_taken \in 0..MaxTaken :
            (AllAnswered(sid) /\ SubmitAnswer(sid, user, answer, time_taken))
                => (ret'.rv = None /\ UNCHANGED Tables)
       /\ \A sid \in DOMAIN psq : \A i \in DOMAIN psq[sid] :
            psq[sid][i].user_answer # None => psq'[sid][i] = psq[sid][i]]_vars

C4_Witness ==
    /\ ret.op = "submit" /\ ret.rv = None
    /\ InProgress(ret.sid) /\ Owner(ret.sid) = ret.user
    /\ Len(psq[ret.sid]) >= 2 /\ AllAnswered(ret.sid)

\* C5: next() and submit() on a completed or abandoned session return
\* NotFound and change no table, unanswered rows or not.
C5_TerminalSessionRejects ==
    [][\A sid \in SessionIds, user \in Users :
          Terminal(sid) =>
            /\ GetNextQuestion(sid, user) => (ret'.rv = None /\ UNCHANGED Tables)
            /\ \A answer \in Answers, time_taken \in 0..MaxTaken :
                  SubmitAnswer(sid, user, answer, time_taken)
                      => (ret'.rv = None /\ UNCHANGED Tables)]_vars

C5_Witness ==
    /\ ret.op = "submit" /\ ret.rv = None
    /\ Terminal(ret.sid) /\ Owner(ret.sid) = ret.user
    /\ Unanswered(psq[ret.sid]) # {}

\* C6: next, submit, end and getSessionReview called on a session by a user
\* who does not own it return NotFound and change no table.
C6_ForeignCallerRejected ==
    [][\A sid \in DOMAIN sessions, user \in Users :
          (/\ user # Owner(sid)
           /\ \/ GetNextQuestion(sid, user)
              \/ \E answer \in Answers, time_taken \in 0..MaxTaken :
                    SubmitAnswer(sid, user, answer, time_taken)
              \/ \E abandoned \in BOOLEAN : EndSession(sid, user, abandoned)
              \/ GetSessionReview(sid, user))
          => (ret'.rv = None /\ UNCHANGED Tables)]_vars

C6_Witness ==
    /\ ret.op = "end" /\ ret.rv = None
    /\ InProgress(ret.sid) /\ Owner(ret.sid) # ret.user
    /\ Len(psq[ret.sid]) >= 1

\* C7: the question_order values of a session's rows are exactly 1..N, N the
\* number of rows, and no operation changes a row's question_order.
C7_DenseQuestionOrder ==
    /\ [](\A sid \in DOMAIN psq :
            {psq[sid][i].question_order : i \in DOMAIN psq[sid]}
                = 1..Len(psq[sid]))
    /\ [][\A sid \in DOMAIN psq :
            /\ Len(psq'[sid]) = Len(psq[sid])
            /\ \A i \in DOMAIN psq[sid] :
                  psq'[sid][i].question_order = psq[sid][i].question_order]_vars

C7_Witness ==
    \E sid \in DOMAIN psq :
        /\ Len(psq[sid]) >= 3
        /\ \E i \in DOMAIN psq[sid] : psq[sid][i].question_id <= Len(SeedCatalog)
        /\ \E i \in DOMAIN psq[sid] : psq[sid][i].question_id > Len(SeedCatalog)
        /\ ret.op = "submit" /\ ret.rv # None /\ ret.sid = sid

\* C8: the rows of a session have pairwise distinct question_id.
C8_NoDuplicateQuestion ==
    \A sid \in DOMAIN psq : \A i, j \in DOMAIN psq[sid] :
        i # j => psq[sid][i].question_id # psq[sid][j].question_id

\* the rows that are unanswered and of the lowest question_order among those
CurrentRows(rows) ==
    {i \in DOMAIN rows :
        /\ rows[i].user_answer = None
        /\ \A j \in DOMAIN rows :
              rows[j].user_answer = None =>
                  rows[i].question_order <= rows[j].question_order}

\* C9: an in_progress session with an unanswered row has exactly one current
\* question, the unanswered row of lowest question_order; next() returns it
\* and a successful submit() writes the answer to it and to no other row.
C9_OneCurrentQuestion ==
    [][\A sid \in DOMAIN sessions :
          (InProgress(sid) /\ Unanswered(psq[sid]) # {}) =>
            LET cur == CurrentRows(psq[sid])
            IN  /\ Cardinality(cur) = 1
                /\ GetNextQuestion(sid, Owner(sid)) =>
                      /\ ret'.rv # None
                      /\ \E i \in cur :
                            /\ ret'.rv[1].question.id = psq[sid][i].id
                            /\ ret'.rv[1].question.question_order
                                  = psq[sid][i].question_order
                /\ \A answer \in Answers, time_taken \in 0..MaxTaken :
                      SubmitAnswer(sid, Owner(sid), answer, time_taken) =>
                          /\ ret'.rv # None
                          /\ \A i \in DOMAIN psq[sid] :
                                IF i \in cur
                                THEN /\ psq'[sid][i].user_answer = Some(answer)
                                     /\ psq'[sid][i].time_taken_seconds
                                            = Some(time_taken)
                                ELSE psq'[sid][i] = psq[sid][i]]_vars

C9_Witness ==
    /\ ret.op = "submit" /\ ret.rv # None /\ Exists(ret.sid)
    /\ \E i, j \in DOMAIN psq[ret.sid] :
          /\ psq[ret.sid][i].question_order < psq[ret.sid][j].question_order
          /\ psq[ret.sid][i].user_answer # None
          /\ psq[ret.sid][j].user_answer # None
    /\ Unanswered(psq[ret.sid]) # {}

\* C10: next() changes no table: with every row answered it returns no
\* question, with the time limit used up it still returns the current
\* question with 0 seconds remaining; a session leaves in_progress only by
\* end().
C10_NextIsReadOnly ==
    [][\A sid \in SessionIds, user \in Users :
          /\ GetNextQuestion(sid, user) =>
                /\ UNCHANGED Tables
                /\ (InProgress(sid) /\ Owner(sid) = user) =>
                      IF Unanswered(psq[sid]) = {} THEN ret'.rv = None
                      ELSE /\ ret'.rv # None
                           /\ LET limit == sessions[sid].time_limit_seconds
                              IN  (/\ limit # None
                                   /\ now - sessions[sid].started_at >= limit[1])
                                  => ret'.rv[1].time_remaining_seconds = Some(0)
          /\ (InProgress(sid) /\ sessions'[sid].status # IN_PROGRESS) =>
                (ret'.op = "end" /\ ret'.sid = sid)]_vars

C10_Witness ==
    /\ ret.op = "next" /\ ret.rv # None
    /\ ret.rv[1].time_remaining_seconds = Some(0)
    /\ InProgress(ret.sid)

\* C11: a session starts with all its rows unanswered; each successful
\* submit() leaves exactly one unanswered row fewer; with no unanswered row
\* left next() and submit() return NotFound; end() by the owner leaves the
\* session completed or abandoned; and with a caller who keeps submitting
\* and ends, every session started is eventually completed or abandoned.
C11_RunsToCompletion ==
    /\ [][/\ Len(sessions') > Len(sessions) =>
                Unanswered(psq'[Len(sessions')]) = DOMAIN psq'[Len(sessions')]
          /\ \A sid \in DOMAIN sessions :
                /\ \A answer \in Answers, time_taken \in 0..MaxTaken :
                      SubmitAnswer(sid, Owner(sid), answer, time_taken) =>
                        IF Unanswered(psq[sid]) = {} \/ ~InProgress(sid)
                        THEN ret'.rv = None
                        ELSE /\ ret'.rv # None
                             /\ Cardinality(Unanswered(psq'[sid]))
                                  = Cardinality(Unanswered(psq[sid])) - 1
                /\ (AllAnswered(sid) /\ GetNextQuestion(sid, Owner(sid)))
                      => ret'.rv = None
                /\ \A abandoned \in BOOLEAN :
                      EndSession(sid, Owner(sid), abandoned) =>
                          sessions'[sid].status \in {COMPLETED, ABANDONED}]_vars
    /\ \A sid \in SessionIds : [](Exists(sid) => <>Terminal(sid))

C11_Witness ==
    /\ ret.op = "end" /\ ret.rv # None
    /\ Terminal(ret.sid) /\ AllAnswered(ret.sid)
    /\ Len(psq[ret.sid]) >= 3

\* a generator whose every call fails: generate_questions returns []
FailingGemini == [cnt \in 1..(MaxCount + 1) |-> {<<>>}]

\* C12: start() succeeds whatever the generator answers, also when every
\* call of the generator fails; the session it creates is in_progress and
\* holds at least 0 and at most question_count rows.
C12_StartNeverFails ==
    /\ [](\A sid \in DOMAIN sessions :
            /\ Len(psq[sid]) >= 0
            /\ Len(psq[sid]) <= sessions[sid].question_count)
    /\ [](\A user \in Users, difficulty \in {None, Some("hard")},
             count \in MinCount..MaxCount :
            ENABLED StartSession(FailingGemini, user, "Mathematics",
                                 Some("Algebra"), difficulty, count, None))
    /\ [][Len(sessions') > Len(sessions) =>
            /\ Len(sessions') = Len(sessions) + 1
            /\ Len(psq') = Len(sessions')
            /\ sessions'[Len(sessions')].status = IN_PROGRESS
            /\ ret'.op = "start" /\ ret'.rv # None]_vars

C12_Witness ==
    /\ ret.op = "start" /\ ret.rv # None
    /\ InProgress(ret.sid)
    /\ Len(psq[ret.sid]) < sessions[ret.sid].question_count
    /\ Len(questions) > Len(psq[ret.sid])

\* the concept scores the selector reads for a request, and the number of
\* entries of a distribution that are difficulty d
Matched(user, subject, topic) ==
    {i \in DOMAIN scores :
        /\ scores[i].user_id = user /\ scores[i].subject = subject
        /\ (topic # None => scores[i].topic = topic[1])}

Entries(ds, d) == Cardinality({i \in DOMAIN ds : ds[i] = d})

\* k is pct percent of count, truncated
Truncated(pct, count, k) == 100 * k <= pct * count /\ pct * count < 100 * (k + 1)

\* the sum of the mastery_score of the rows in S, times 100
RECURSIVE MasterySum100(_)
MasterySum100(S) ==
    IF S = {} THEN 0
    ELSE LET i == CHOOSE i \in S : TRUE
         IN  (100 * scores[i].mastery_score.n) \div scores[i].mastery_score.d
             + MasterySum100(S \ {i})

\* C13: for every count in 5..30 and every learner history the distribution
\* has exactly count entries, all easy, medium or hard; easy and hard are
\* the truncated percentages of one bucket (50/0, 60/0, 30/20 or 20/40),
\* medium is the remainder; count 7 with avg_mastery 55 gives 2, 4 and 1.
C13_DistributionSumsToCount ==
    ret.op = "distribution" =>
        LET ds == ret.rv[1].difficulties
            count == ret.rv[1].count
            easy == Entries(ds, "easy")
            medium == Entries(ds, "medium")
            hard == Entries(ds, "hard")
            rows == Matched(ret.user, ret.rv[1].subject, ret.rv[1].topic)
        IN  /\ Len(ds) = count
            /\ \A i \in DOMAIN ds : ds[i] \in DifficultyLevel
            /\ easy + medium + hard = count
            /\ medium >= 0 /\ medium = count - easy - hard
            /\ \E b \in {<<50, 0>>, <<60, 0>>, <<30, 20>>, <<20, 40>>} :
                  Truncated(b[1], count, easy) /\ Truncated(b[2], count, hard)
            /\ (/\ count = 7 /\ rows # {}
                /\ MasterySum100(rows) = 5500 * Cardinality(rows))
                  => (easy = 2 /\ medium = 4 /\ hard = 1)

C13_Witness ==
    /\ ret.op = "distribution" /\ ret.rv[1].count = 7
    /\ LET rows == Matched(ret.user, ret.rv[1].subject, ret.rv[1].topic)
       IN  /\ Cardinality(rows) = 2
           /\ MasterySum100(rows) = 5500 * Cardinality(rows)
    /\ Entries(ret.rv[1].difficulties, "hard") = 1

\* C14: with no concept score matching the request, the distribution has
\* ceil(count / 2) easy entries, count - ceil(count / 2) medium entries and
\* no hard entry.
C14_ColdStartCeilEasy ==
    (/\ ret.op = "distribution"
     /\ Matched(ret.user, ret.rv[1].subject, ret.rv[1].topic) = {}) =>
        LET ds == ret.rv[1].difficulties
            count == ret.rv[1].count
            easy == Entries(ds, "easy")
        IN  /\ 2 * easy >= count /\ 2 * (easy - 1) < count
            /\ Entries(ds, "medium") = count - easy
            /\ Entries(ds, "hard") = 0

\* C15: with concept scores matching the request, avg_mastery being the
\* mean of their mastery_score: below 40 the distribution has 60% easy, no
\* hard; from 40 to below 70 it has 30% easy and 20% hard; from 70 on it has
\* 20% easy and 40% hard (percentages truncated), medium being the rest; so
\* a hard entry needs avg_mastery >= 40.
C15_BucketsByAvgMastery ==
    (/\ ret.op = "distribution"
     /\ Matched(ret.user, ret.rv[1].subject, ret.rv[1].topic) # {}) =>
        LET ds == ret.rv[1].difficulties
            count == ret.rv[1].count
            easy == Entries(ds, "easy")
            hard == Entries(ds, "hard")
            rows == Matched(ret.user, ret.rv[1].subject, ret.rv[1].topic)
            sum100 == MasterySum100(rows)
            n == Cardinality(rows)
        IN  /\ Entries(ds, "medium") = count - easy - hard
            /\ sum100 < 4000 * n =>
                  (Truncated(60, count, easy) /\ hard = 0)
            /\ (4000 * n <= sum100 /\ sum100 < 7000 * n) =>
                  (Truncated(30, count, easy) /\ Truncated(20, count, hard))
            /\ 7000 * n <= sum100 =>
                  (Truncated(20, count, easy) /\ Truncated(40, count, hard))
            /\ hard > 0 => sum100 >= 4000 * n

C15_Witness ==
    /\ ret.op = "distribution"
    /\ LET rows == Matched(ret.user, ret.rv[1].subject, ret.rv[1].topic)
       IN  /\ Cardinality(rows) = 2
           /\ \E i \in rows : scores[i].mastery_score # Frac(70, 1)
           /\ MasterySum100(rows) = 7000 * Cardinality(rows)
    /\ ret.rv[1].count = 9
    /\ Entries(ret.rv[1].difficulties, "hard") = 3

\* C18: the recommended difficulty of an accuracy is easy below 40, medium
\* from 40 to below 70 and hard from 70 on; exactly 40 gives medium,
\* exactly 70 gives hard.
C18_RecommendedDifficultyBuckets ==
    ret.op = "recommended" =>
        LET a == ret.rv[1].accuracy
            d == ret.rv[1].difficulty
        IN  /\ d = "easy" <=> a.n < 40 * a.d
            /\ d = "medium" <=> (40 * a.d <= a.n /\ a.n < 70 * a.d)
            /\ d = "hard" <=> 70 * a.d <= a.n
            /\ a = Frac(40, 1) => d = "medium"
            /\ a = Frac(70, 1) => d = "hard"

C18_Witness ==
    /\ ret.op = "recommended"
    /\ ret.rv[1].accuracy = Frac(70, 1)
    /\ ret.rv[1].difficulty = "hard"

\* C16: in a session started with a pinned difficulty d every row has the
\* difficulty d, whether its question came from the catalog or from the
\* generator.
C16_PinnedDifficultyRows ==
    \A sid \in DOMAIN sessions :
        sessions[sid].difficulty # None =>
            \A i \in DOMAIN psq[sid] :
                psq[sid][i].difficulty = sessions[sid].difficulty[1]

\* C17: every concept score written by submit() stores the mastery_score
\* correct_attempts / total_attempts x 100 of its counters and the
\* recommended_difficulty of that accuracy.
C17_MasteryFollowsCounters ==
    ret.op = "submit" =>
        \A i \in DOMAIN scores :
            /\ scores[i].mastery_score = MasteryScore(scores[i])
            /\ scores[i].recommended_difficulty
                  = CalculateRecommendedDifficulty(MasteryScore(scores[i]))

\* the concept scores of the key of question q for a user
ScoresOfKey(sc, user, q) ==
    {i \in DOMAIN sc :
        /\ sc[i].user_id = user /\ sc[i].subject = q.subject
        /\ sc[i].topic = q.topic /\ sc[i].subtopic = q.subtopic}

\* C19: right after a submit() with an incorrect answer the concept score of
\* the answered question's key exists and has current_streak 0, whether the
\* answer created the record or the record was there.
C19_WrongAnswerResetsStreak ==
    [][\A sid \in DOMAIN sessions, answer \in Answers,
         time_taken \in 0..MaxTaken :
          (/\ InProgress(sid) /\ Unanswered(psq[sid]) # {}
           /\ SubmitAnswer(sid, Owner(sid), answer, time_taken)) =>
            \A r \in CurrentRows(psq[sid]) :
                LET q == questions[psq[sid][r].question_id]
                    key == ScoresOfKey(scores', Owner(sid), q)
                IN  answer # q.correct_answer =>
                        /\ key # {}
                        /\ \A i \in key : scores'[i].current_streak = 0]_vars

C19_Witness ==
    /\ ret.op = "submit" /\ ret.rv # None /\ ~ret.rv[1].is_correct
    /\ \E i \in DOMAIN scores :
          /\ scores[i].user_id = ret.user
          /\ scores[i].total_attempts >= 2
          /\ scores[i].correct_attempts >= 1
          /\ scores[i].current_streak = 0

\* C20: no answer lowers the best_streak of a concept score, and no concept
\* score is ever removed.
C20_BestStreakNeverDecreases ==
    [][/\ Len(scores') >= Len(scores)
       /\ \A i \in DOMAIN scores :
            /\ scores'[i].id = scores[i].id
            /\ scores'[i].best_streak >= scores[i].best_streak]_vars

C20_Witness ==
    /\ ret.op = "answer" /\ ~ret.rv[1].is_correct
    /\ Len(scores) >= 2
    /\ \E i \in DOMAIN scores :
          /\ scores[i].user_id = ret.user
          /\ scores[i].subtopic = ret.rv[1].subtopic
          /\ scores[i].best_streak = 2
          /\ scores[i].current_streak = 0

\* the answers a session recorded for the questions of one concept key, in
\* the order they were given (submit answers by ascending question_order):
\* TRUE for a correct answer
AnswerSeries(rows, cat, subject, topic, subtopic) ==
    LET hits == SelectSeq(OrderByQuestionOrder(rows), LAMBDA r :
                    /\ r.user_answer # None
                    /\ cat[r.question_id].subject = subject
                    /\ cat[r.question_id].topic = topic
                    /\ cat[r.question_id].subtopic = subtopic)
    IN  [i \in DOMAIN hits |-> hits[i].is_correct = Some(TRUE)]

\* the length of the run of correct answers a series ends with
RECURSIVE TrailingRun(_)
TrailingRun(s) ==
    IF s = <<>> \/ ~s[Len(s)] THEN 0
    ELSE 1 + TrailingRun(SubSeq(s, 1, Len(s) - 1))

\* the length of the longest run of correct answers of a series
RECURSIVE LongestRun(_)
LongestRun(s) ==
    IF s = <<>> THEN 0
    ELSE Max(TrailingRun(s), LongestRun(SubSeq(s, 1, Len(s) - 1)))

\* C21: for a user whose answers all come from one session, a concept key
\* with a series of n answers of which k are correct has exactly one concept
\* score, with total_attempts n, correct_attempts k, current_streak the
\* trailing run of correct answers and best_streak the longest run.
C21_CountersFollowSeries ==
    \A sid \in DOMAIN sessions, i \in DOMAIN questions :
        LET user == Owner(sid)
            q == questions[i]
            s == AnswerSeries(psq[sid], questions, q.subject, q.topic, q.subtopic)
            key == ScoresOfKey(scores, user, q)
        IN  (/\ Cardinality({x \in DOMAIN sessions : Owner(x) = user}) = 1
             /\ s # <<>>) =>
                /\ Cardinality(key) = 1
                /\ \A j \in key :
                      /\ scores[j].total_attempts = Len(s)
                      /\ scores[j].correct_attempts
                            = Len(SelectSeq(s, LAMBDA b : b))
                      /\ scores[j].current_streak = TrailingRun(s)
                      /\ scores[j].best_streak = LongestRun(s)

C21_Witness ==
    \E sid \in DOMAIN sessions, i \in DOMAIN questions :
        /\ AnswerSeries(psq[sid], questions, questions[i].subject,
                        questions[i].topic, questions[i].subtopic)
              = <<TRUE, TRUE, FALSE, TRUE>>
        /\ \E j \in DOMAIN scores :
              /\ scores[j].user_id = Owner(sid)
              /\ scores[j].total_attempts = 4
              /\ scores[j].best_streak = 2
              /\ scores[j].current_streak = 1

\* C22: in every summary end() returns, total_questions is the number of
\* rows of the session, skipped the number of unanswered rows, correct +
\* wrong + skipped = total, the totals by difficulty add up to the total and
\* no count of correct answers of a difficulty exceeds its total.
C22_SummaryCountsAddUp ==
    (ret.op = "end" /\ ret.rv # None) =>
        LET s == ret.rv[1].summary
            rows == psq[ret.sid]
        IN  /\ s.total_questions = Len(rows)
            /\ s.skipped = Cardinality(Unanswered(rows))
            /\ s.correct_answers + s.wrong_answers + s.skipped
                  = s.total_questions
            /\ s.total_by["easy"] + s.total_by["medium"] + s.total_by["hard"]
                  = s.total_questions
            /\ \A d \in DifficultyLevel : s.correct_by[d] <= s.total_by[d]

C22_Witness ==
    /\ ret.op = "end" /\ ret.rv # None
    /\ ret.rv[1].summary.correct_answers >= 1
    /\ ret.rv[1].summary.wrong_answers >= 1
    /\ ret.rv[1].summary.skipped >= 1
    /\ ret.rv[1].summary.total_by["easy"] >= 1
    /\ ret.rv[1].summary.total_by["medium"] >= 1

\* C23: the catalog lookup returns nothing or a question of the catalog
\* that has the class level, subject and difficulty asked for (and the topic,
\* when one is given) and whose id is not in the exclusion list.
C23_LookupRespectsExclusion ==
    (ret.op = "lookup" /\ ret.rv[1].result # None) =>
        LET a == ret.rv[1]
            q == a.result[1]
        IN  /\ \E i \in DOMAIN questions : questions[i] = q
            /\ q.class_level = a.class_level
            /\ q.subject = a.subject
            /\ q.difficulty = a.difficulty
            /\ (a.topic # None => q.topic = a.topic[1])
            /\ q.id \notin a.exclude_ids

C23_Witness ==
    /\ ret.op = "lookup" /\ ret.rv[1].result # None
    /\ ret.rv[1].exclude_ids = {1, 2}
    /\ ret.rv[1].result[1].id = 3
    /\ \A i \in {1, 2} :
          /\ questions[i].class_level = ret.rv[1].class_level
          /\ questions[i].subject = ret.rv[1].subject
          /\ questions[i].difficulty = ret.rv[1].difficulty

\* C24: for a session in progress with a question pending, whatever time
\* has passed since its start, next() of its owner returns the question with
\* time_remaining_seconds = max(0, limit - elapsed) >= 0 when a limit is set,
\* submit() of its owner succeeds and records the answer, and the status
\* only changes in an end() call.
C24_TimeLimitChangesNothing ==
    [][\A sid \in DOMAIN sessions :
          (InProgress(sid) /\ Unanswered(psq[sid]) # {}) =>
            LET s == sessions[sid]
            IN  /\ GetNextQuestion(sid, Owner(sid)) =>
                      /\ ret'.rv # None
                      /\ s.time_limit_seconds # None =>
                            /\ ret'.rv[1].time_remaining_seconds
                                  = Some(Max(0, s.time_limit_seconds[1]
                                                  - (now - s.started_at)))
                            /\ ret'.rv[1].time_remaining_seconds[1] >= 0
                /\ \A answer \in Answers, time_taken \in 0..MaxTaken :
                      SubmitAnswer(sid, Owner(sid), answer, time_taken) =>
                          /\ ret'.rv # None
                          /\ Cardinality(Answered(psq'[sid]))
                                = Cardinality(Answered(psq[sid])) + 1
                /\ sessions'[sid].status # IN_PROGRESS => ret'.op = "end"]_vars

C24_Witness ==
    /\ ret.op = "submit" /\ ret.rv # None
    /\ InProgress(ret.sid)
    /\ sessions[ret.sid].time_limit_seconds # None
    /\ \E i \in DOMAIN psq[ret.sid] :
          /\ psq[ret.sid][i].answered_at # None
          /\ psq[ret.sid][i].answered_at[1] - sessions[ret.sid].started_at
                > sessions[ret.sid].time_limit_seconds[1]

\* the difficulties start() computed for a session: the pinned difficulty
\* repeated, or the adaptive distribution of its user
SessionDifficulties(s) ==
    IF s.difficulty # None THEN Repeat(s.difficulty[1], s.question_count)
    ELSE GetAdaptiveDifficultyDistribution(scores, s.user_id, s.subject,
                                           s.topic, s.question_count)

\* C25: a session that got all its question_count rows has as many easy,
\* medium and hard rows as the distribution computed for it has easy, medium
\* and hard entries (no concept score changes between the start and the
\* states looked at).
C25_RowsFollowDistribution ==
    \A sid \in DOMAIN sessions :
        Len(psq[sid]) = sessions[sid].question_count =>
            \A d \in DifficultyLevel :
                Len(SelectSeq(psq[sid], LAMBDA r : r.difficulty = d))
                  = Len(SelectSeq(SessionDifficulties(sessions[sid]),
                                  LAMBDA x : x = d))

\* C26: no two questions of the catalog have the same external_id, and
\* every row a start() request got back for a generated draft is the row the
\* catalog holds under the draft's fingerprint, also when the requests run
\* together.
C26_OneRowPerFingerprint ==
    /\ \A i, j \in DOMAIN questions :
          (i # j /\ questions[i].external_id # None) =>
              questions[i].external_id # questions[j].external_id
    /\ \A p \in DOMAIN procs : \A k \in DOMAIN procs[p].qs :
          LET row == procs[p].qs[k]
          IN  row.external_id # None =>
                \E i \in DOMAIN questions :
                    /\ questions[i].external_id = row.external_id
                    /\ questions[i] = row

\* C27: a request whose insert of a draft raised because the fingerprint was
\* there already got back rows whose ids are all ids of catalog rows, so its
\* session rows refer to questions that exist.
C27_RaceReturnsStoredRow ==
    \A p \in DOMAIN procs :
        procs[p].raised > 0 =>
            \A k \in DOMAIN procs[p].qs : procs[p].qs[k].id \in Ids(questions)

----------------------------------------------------------------------------
(* Several sessions of one user, answered by requests that run one after   *)
(* the other or together: one session per request in flight and one more,  *)
(* started on the seeded catalog with a generator that is down.            *)

StartCross ==
    /\ Len(sessions) < MaxProcs + 1
    /\ StartSession(FailingGemini, "u1", "Mathematics", Some("Algebra"),
                    None, MinCount, None)

\* a submit that no other request interleaves with, made before the
\* requests that run together
SubmitCross ==
    /\ \A p \in DOMAIN procs : procs[p].pc = "idle"
    /\ SeqSum([sid \in DOMAIN psq |-> Cardinality(Answered(psq[sid]))])
          < MaxEarlier
    /\ \E sid \in DOMAIN sessions, answer \in Answers :
        SubmitAnswer(sid, Owner(sid), answer, MaxTaken)

SubmitCrossConc ==
    \E p \in DOMAIN procs :
        \/ \E sid \in DOMAIN sessions, answer \in Answers :
              SubmitGetSession(p, sid, Owner(sid), answer, MaxTaken)
        \/ SubmitSelect(p)
        \/ SubmitUpdateAnswer(p)
        \/ SubmitUpdateUsage(p)
        \/ SubmitQueryScore(p)
        \/ SubmitWriteScore(p)
        \/ SubmitProgress(p)

NextCross ==
    \/ StartCross
    \/ SubmitCross
    \/ SubmitCrossConc

SpecCross == InitConc /\ [][NextCross]_vars

\* no request is between its first read and its return
Quiet == \A p \in DOMAIN procs : procs[p].pc \in {"idle", "done"}

\* no two requests selected the same session row (the race of C1)
DistinctRows ==
    \A p, q \in DOMAIN procs :
        (p # q /\ procs[p].pending # None /\ procs[q].pending # None) =>
            \/ procs[p].sid # procs[q].sid
            \/ procs[p].pending[1].psq.id # procs[q].pending[1].psq.id

\* the answers all sessions recorded for a question, or the correct ones
AnsweredRows(question_id, correct_only) ==
    SeqSum([sid \in DOMAIN psq |->
        Cardinality({i \in Answered(psq[sid]) :
            /\ psq[sid][i].question_id = question_id
            /\ (correct_only => psq[sid][i].is_correct = Some(TRUE))})])

\* C28: once every request has returned, and no two of them answered the
\* same session row, each question's times_used has grown by the number of
\* answers recorded for it and times_correct by the number of correct ones,
\* so times_correct <= times_used.
C28_UsageCountsEveryAnswer ==
    (Quiet /\ DistinctRows) =>
        \A i \in DOMAIN questions :
            /\ questions[i].times_used
                  = SeedCatalog[i].times_used + AnsweredRows(i, FALSE)
            /\ questions[i].times_correct
                  = SeedCatalog[i].times_correct + AnsweredRows(i, TRUE)
            /\ questions[i].times_correct <= questions[i].times_used

\* C29: no two concept scores have the same user, subject, topic and
\* subtopic, also when requests of different sessions record the first
\* attempts of a key together.
C29_OneScorePerKey ==
    DistinctRows =>
        \A i, j \in DOMAIN scores :
            (/\ scores[i].user_id = scores[j].user_id
             /\ scores[i].subject = scores[j].subject
             /\ scores[i].topic = scores[j].topic
             /\ scores[i].subtopic = scores[j].subtopic) => i = j

\* the answers the sessions of a user recorded for the questions of the key
\* of question q
KeyAnswers(user, q, correct_only) ==
    SeqSum([sid \in DOMAIN psq |->
        IF Owner(sid) # user THEN 0
        ELSE Cardinality({i \in Answered(psq[sid]) :
                LET a == questions[psq[sid][i].question_id]
                IN  /\ a.subject = q.subject /\ a.topic = q.topic
                    /\ a.subtopic = q.subtopic
                    /\ (correct_only => psq[sid][i].is_correct = Some(TRUE))})])

\* C30: once every request has returned, and no two of them answered the
\* same session row, a key that has one concept score has every answer of
\* the user's sessions counted in it: total_attempts is the number of
\* answers, correct_attempts the number of correct ones.
C30_BothAnswersCounted ==
    (Quiet /\ DistinctRows) =>
        \A user \in Users, i \in DOMAIN questions :
            LET key == ScoresOfKey(scores, user, questions[i])
            IN  Cardinality(key) = 1 =>
                    \A j \in key :
                        /\ scores[j].total_attempts
                              = KeyAnswers(user, questions[i], FALSE)
                        /\ scores[j].correct_attempts
                              = KeyAnswers(user, questions[i], TRUE)

----------------------------------------------------------------------------
(* The submit requests in flight together with end_session calls on the    *)
(* same session.                                                           *)

NextEnding ==
    \/ StartConc
    \/ SubmitConc
    \/ End

SpecEnding == InitConc /\ [][NextEnding]_vars

\* C31: the aggregate fields of a terminal session equal the counts over
\* its rows (no row changes once the session is terminal), also when a submit
\* that passed its in_progress check runs together with an end().
C31_TerminalAggregatesMatchRows ==
    \A sid \in DOMAIN sessions :
        Terminal(sid) =>
            LET rows == psq[sid]
                s == sessions[sid]
            IN  /\ s.total_questions = Some(Len(rows))
                /\ s.correct_answers
                      = Some(Cardinality({i \in DOMAIN rows :
                                            rows[i].is_correct = Some(TRUE)}))
                /\ s.wrong_answers
                      = Some(Cardinality({i \in DOMAIN rows :
                                            rows[i].is_correct = Some(FALSE)}))
                /\ s.skipped = Some(Cardinality(Unanswered(rows)))

\* C32: getSessionReview changes no table: on a session in progress it
\* returns nothing, on a terminal session of the caller it returns the
\* review and leaves the session row as end() wrote it.
C32_ReviewIsReadOnly ==
    [][\A sid \in DOMAIN sessions, user \in Users :
          GetSessionReview(sid, user) =>
            /\ sessions' = sessions
            /\ InProgress(sid) => ret'.rv = None
            /\ (Terminal(sid) /\ user = Owner(sid)) => ret'.rv # None]_vars

\* C33: the progress submit() returns adds up to the rows of the session
\* (questions_answered + questions_remaining = number of rows, and nothing
\* remains once no row is pending), and next() reports the number of rows
\* as total_questions with current_question_number never above it.
C33_ProgressCountsRows ==
    /\ (ret.op = "submit" /\ ret.rv # None) =>
          LET r == ret.rv[1]
              rows == psq[ret.sid]
          IN  /\ r.questions_answered + r.questions_remaining = Len(rows)
              /\ Unanswered(rows) = {} => r.questions_remaining = 0
    /\ (ret.op = "next" /\ ret.rv # None) =>
          LET r == ret.rv[1]
          IN  /\ r.total_questions = Len(psq[ret.sid])
              /\ r.current_question_number <= r.total_questions

\* C34: in every session the answered rows are exactly the rows with
\* question_order 1..k, k the number of answered rows, and the
\* current_question_number next() returns is the question_order of the
\* question it returns.
C34_AnsweredRowsFormPrefix ==
    /\ \A sid \in DOMAIN sessions :
          LET rows == psq[sid]
              k == Cardinality(Answered(rows))
          IN  /\ k \in 0..Len(rows)
              /\ {rows[i].question_order : i \in Answered(rows)} = 1..k
    /\ (ret.op = "next" /\ ret.rv # None) =>
          ret.rv[1].current_question_number
              = ret.rv[1].question.question_order

C34_Witness ==
    /\ ret.op = "next" /\ ret.rv # None
    /\ ret.rv[1].current_question_number = 2
    /\ Cardinality(Answered(psq[ret.sid])) = 1
    /\ Cardinality(Unanswered(psq[ret.sid])) >= 1

\* the mastery tracker with the time a client may send: SubmitAnswerRequest
\* accepts every time_taken_seconds >= 0
AnswerTimed ==
    /\ Attempts(scores) < MaxAttempts
    /\ \E user \in Users, subtopic \in {None, Some("Linear")},
          is_correct \in BOOLEAN, time_taken \in 0..MaxTaken :
        /\ scores' = UpdateConceptScore(scores, user, "Mathematics", "Algebra",
                                        subtopic, "medium", is_correct,
                                        time_taken, now)
        /\ ret' = [op |-> "answer", sid |-> 0, user |-> user,
                   rv |-> Some([subject |-> "Mathematics", topic |-> "Algebra",
                                subtopic |-> subtopic,
                                difficulty |-> "medium",
                                is_correct |-> is_correct,
                                time_taken |-> time_taken])]
    /\ UNCHANGED <<questions, sessions, psq, now, procs>>

SpecTimed == InitSelector /\ [][AnswerTimed]_vars

\* C35: an answer to an existing concept score sets avg_time_seconds to
\* (oldAvg * oldTotal + timeTaken) / (oldTotal + 1), oldTotal the
\* total_attempts before the answer, whatever oldAvg >= 0 and timeTaken >= 0
\* are.
C35_AverageIsIncrementalMean ==
    [][\A i \in DOMAIN scores :
          scores'[i] # scores[i] =>
            LET old == scores[i]
                time_taken == ret'.rv[1].time_taken
            IN  scores'[i].avg_time_seconds
                  = Frac(old.avg_time_seconds.n * old.total_attempts
                            + time_taken * old.avg_time_seconds.d,
                         old.avg_time_seconds.d * (old.total_attempts + 1))]_vars

\* sessions over questions of two topics: a catalog of MinCount hard
\* questions of the class level, each of either topic, with distinct
\* times_used; a start without topic selects all of them
TopicCatalogs ==
    {[i \in 1..MinCount |->
        [id |-> i, external_id |-> None, subject |-> "Mathematics",
         topic |-> tp[i], subtopic |-> None, difficulty |-> "hard",
         class_level |-> DefaultClassLevel, correct_answer |-> "A",
         times_used |-> i - 1, times_correct |-> 0]] :
      tp \in [1..MinCount -> {"Algebra", "Geometry"}]}

InitTopics ==
    /\ questions \in TopicCatalogs
    /\ sessions = <<>>
    /\ psq = <<>>
    /\ scores = <<>>
    /\ now = 0
    /\ ret = [op |-> "init", sid |-> 0, user |-> "", rv |-> None]
    /\ procs = <<>>

StartTopics ==
    /\ Len(sessions) < MaxSessions
    /\ StartSession(FailingGemini, "u1", "Mathematics", None, Some("hard"),
                    MinCount, None)

NextTopics ==
    \/ StartTopics
    \/ Submit
    \/ End

SpecTopics == InitTopics /\ [][NextTopics]_vars

\* the accuracy of a session on a topic, in percent: the correct rows over
\* the rows whose question has the topic
TopicRows(sid, tp) ==
    {i \in DOMAIN psq[sid] : questions[psq[sid][i].question_id].topic = tp}

TopicAccuracy(sid, tp) ==
    Frac(100 * Cardinality({i \in TopicRows(sid, tp) :
                              psq[sid][i].is_correct = Some(TRUE)}),
         Cardinality(TopicRows(sid, tp)))

InSeq(x, s) == \E i \in DOMAIN s : s[i] = x

\* C36: end() lists among weak_topics exactly the topics of the session
\* with accuracy below 50% and among strong_topics exactly those with
\* accuracy of at least 80%; no topic is in both lists and every listed
\* topic is the topic of a question of the session.
C36_WeakAndStrongTopics ==
    (ret.op = "end" /\ ret.rv # None) =>
        LET s == ret.rv[1].summary
            sid == ret.sid
        IN  \A tp \in {"Algebra", "Geometry"} :
                IF TopicRows(sid, tp) = {}
                THEN ~InSeq(tp, s.weak_topics) /\ ~InSeq(tp, s.strong_topics)
                ELSE /\ InSeq(tp, s.weak_topics)
                          <=> FracLess(TopicAccuracy(sid, tp), 50)
                     /\ InSeq(tp, s.strong_topics)
                          <=> ~FracLess(TopicAccuracy(sid, tp), 80)
                     /\ ~(InSeq(tp, s.weak_topics) /\ InSeq(tp, s.strong_topics))

C36_Witness ==
    /\ ret.op = "end" /\ ret.rv # None
    /\ TopicAccuracy(ret.sid, "Algebra") = Frac(80, 1)
    /\ ret.rv[1].summary.strong_topics = <<"Algebra">>
    /\ ret.rv[1].summary.weak_topics = <<>>

\* the cache lookup over catalogs whose questions were used 0..MaxUsed
\* times
UsedRows ==
    [topic : {"Algebra", "Geometry"}, difficulty : {"easy", "hard"},
     times_used : 0..MaxUsed]

UsedRow(id, r) ==
    [id |-> id, external_id |-> None, subject |-> "Mathematics",
     topic |-> r.topic, subtopic |-> None, difficulty |-> r.difficulty,
     class_level |-> DefaultClassLevel, correct_answer |-> "A",
     times_used |-> r.times_used, times_correct |-> 0]

UsedCatalogs ==
    UNION {{[i \in 1..n |-> UsedRow(i, rs[i])] : rs \in [1..n -> UsedRows]} :
            n \in 0..MaxCatalog}

InitLeastUsed ==
    /\ questions \in UsedCatalogs
    /\ sessions = <<>>
    /\ psq = <<>>
    /\ scores = <<>>
    /\ now = 0
    /\ ret = [op |-> "init", sid |-> 0, user |-> "", rv |-> None]
    /\ procs = <<>>

SpecLeastUsed == InitLeastUsed /\ [][Lookup]_vars

\* the questions a lookup may consider: of its class level, subject and
\* difficulty, of its topic if it names one, and not excluded
Candidates(a) ==
    {i \in DOMAIN questions :
        /\ questions[i].class_level = a.class_level
        /\ questions[i].subject = a.subject
        /\ questions[i].difficulty = a.difficulty
        /\ (a.topic # None => questions[i].topic = a.topic[1])
        /\ questions[i].id \notin a.exclude_ids}

\* C37: the cache lookup returns a candidate that no other candidate
\* undercuts in times_used, and returns none only when there is no
\* candidate.
C37_LookupReturnsLeastUsed ==
    ret.op = "lookup" =>
        LET a == ret.rv[1]
        IN  IF a.result = None
            THEN Candidates(a) = {}
            ELSE /\ \E i \in Candidates(a) : questions[i] = a.result[1]
                 /\ \A i \in Candidates(a) :
                        a.result[1].times_used <= questions[i].times_used

C37_Witness ==
    /\ ret.op = "lookup" /\ ret.rv[1].result # None
    /\ ret.rv[1].result[1].times_used = 1
    /\ Cardinality(Candidates(ret.rv[1])) = 2
    /\ \E i \in Candidates(ret.rv[1]) : questions[i].times_used = 2
    /\ \E i \in DOMAIN questions :
          /\ i \notin Candidates(ret.rv[1])
          /\ questions[i].times_used = 0

\* the mastery tracker over the three difficulties, for one user
AnswerBucket ==
    /\ Attempts(scores) < MaxAttempts
    /\ \E subtopic \in {None, Some("Linear")}, difficulty \in DifficultyLevel,
          is_correct \in BOOLEAN :
        /\ scores' = UpdateConceptScore(scores, "u1", "Mathematics", "Algebra",
                                        subtopic, difficulty, is_correct,
                                        MaxTaken, now)
        /\ ret' = [op |-> "answer", sid |-> 0, user |-> "u1",
                   rv |-> Some([subject |-> "Mathematics", topic |-> "Algebra",
                                subtopic |-> subtopic,
                                difficulty |-> difficulty,
                                is_correct |-> is_correct,
                                time_taken |-> MaxTaken])]
    /\ UNCHANGED <<questions, sessions, psq, now, procs>>

SpecBuckets == InitSelector /\ [][AnswerBucket]_vars

BucketSum(f) == f["easy"] + f["medium"] + f["hard"]

\* C38: after every answer of a series the attempts of the three
\* difficulties of a concept score add up to total_attempts and the correct
\* ones to correct_attempts, and the answer has raised the bucket of its
\* difficulty only (attempts by one, correct by one if it was correct).
C38_BucketsAddUp ==
    [][\A i \in DOMAIN scores' :
          LET new == scores'[i]
              a == ret'.rv[1]
              Was(f) == IF i \in DOMAIN scores THEN scores[i][f]
                        ELSE [d \in DifficultyLevel |-> 0]
              touched == i \notin DOMAIN scores \/ scores[i] # new
          IN  /\ BucketSum(new.attempts) = new.total_attempts
              /\ BucketSum(new.correct) = new.correct_attempts
              /\ \A d \in DifficultyLevel :
                    /\ new.attempts[d] = Was("attempts")[d]
                          + (IF touched /\ d = a.difficulty THEN 1 ELSE 0)
                    /\ new.correct[d] = Was("correct")[d]
                          + (IF touched /\ d = a.difficulty /\ a.is_correct
                             THEN 1 ELSE 0)]_vars

C38_Witness ==
    /\ ret.op = "answer" /\ ret.rv[1].difficulty = "medium"
    /\ \E i \in DOMAIN scores :
          /\ scores[i].subtopic = ret.rv[1].subtopic
          /\ scores[i].attempts = [easy |-> 1, medium |-> 2, hard |-> 1]
          /\ scores[i].correct = [easy |-> 0, medium |-> 1, hard |-> 1]

\* C39: every concept score written by a series of answers has
\* 0 <= current_streak <= best_streak <= correct_attempts <= total_attempts
\* and total_attempts >= 1.
C39_StreaksWithinCounts ==
    \A i \in DOMAIN scores :
        /\ 0 <= scores[i].current_streak
        /\ scores[i].current_streak <= scores[i].best_streak
        /\ scores[i].best_streak <= scores[i].correct_attempts
        /\ scores[i].correct_attempts <= scores[i].total_attempts
        /\ scores[i].total_attempts >= 1

C39_Witness ==
    /\ ret.op = "answer" /\ ret.rv[1].is_correct
    /\ \E i \in DOMAIN scores :
          /\ scores[i].user_id = ret.user
          /\ scores[i].subtopic = ret.rv[1].subtopic
          /\ scores[i].current_streak = 1
          /\ scores[i].best_streak = 2
          /\ scores[i].correct_attempts = 3
          /\ scores[i].total_attempts = 4

====
